---------------------------- MODULE Spec2Model ----------------------------
(***************************************************************************)
(* A model of the workflow engine core: the port compatibility checker     *)
(* (types/compatibility.ts), the graph validator (engine/graph-validator)  *)
(* and the workflow executor (engine/executor.ts).                         *)
(*                                                                         *)
(* Node and edge ids are strings without ':' so that the executor's        *)
(* makeKey template `${nodeId}:${portId}` is injective; a key is modelled  *)
(* as the pair <<nodeId, portId>>.                                         *)
(***************************************************************************)
EXTENDS Integers, Sequences, FiniteSets, TLC

VARIABLES
    sourcePort,     \* checkPortCompatibility: first argument
    targetPort,     \* checkPortCompatibility: second argument
    compat,         \* checkPortCompatibility: the returned ConnectionValidation
    graph,          \* the WorkflowGraph snapshot handed to a constructor
    validation,     \* GraphValidator.validate(): the returned {valid, errors}
    sortResult,     \* GraphValidator.topologicalSort(): the returned TopologicalSort
    cycleResult,    \* GraphValidator.detectCycles(): the returned CycleDetectionResult
    inferResult,    \* TypeInferenceEngine.inferTypes(): how the call completed
    state,          \* WorkflowExecutor.state: nodeOutputs, executedNodes, logs
    inferred,       \* WorkflowExecutor.typeInference.inferredTypes
    pc,             \* position of the execute call in flight ("idle" when none)
    order,          \* execute: topSort.order of the call in flight
    idx,            \* execute: index into order of the node being executed
    context,        \* execute: the ExecutionContext argument
    pending,        \* executeNode: outputs returned by executeNodeLogic, not yet stored
    result,         \* execute: the returned ExecutionResult of the last call
    calls,          \* number of execute calls started on this executor
    started,        \* history: node ids in the order executeNode was entered (this call)
    finished,       \* history: node ids in the order executeNode returned (this call)
    plugins,        \* PluginManager.plugins: Map from plugin id to plugin
    capabilityIndex,\* PluginManager.capabilityIndex: Map from capability to Set of ids
    hookCalls,      \* history: calls of initialize and of cleanup made on each plugin
    pluginCall      \* the last PluginManager call and how it completed

vars == <<sourcePort, targetPort, compat, graph, validation, sortResult,
          cycleResult, inferResult, state, inferred, pc, order, idx, context, pending,
          result, calls, started, finished, plugins, capabilityIndex, hookCalls,
          pluginCall>>

-----------------------------------------------------------------------------
(* Sequence helpers (Array.prototype methods used by the source).          *)

Range(s) == {s[i] : i \in 1..Len(s)}

\* Array.prototype.indexOf, 1-based; 0 when absent
IndexOf(s, x) ==
    IF \E i \in 1..Len(s) : s[i] = x
    THEN CHOOSE i \in 1..Len(s) : s[i] = x /\ \A j \in 1..(i-1) : s[j] # x
    ELSE 0

-----------------------------------------------------------------------------
(* A JavaScript Map: a sequence of [key, value] entries in insertion order. *)
(* set() on a present key replaces the value and keeps the key's position.  *)

MapHas(m, k) == \E i \in 1..Len(m) : m[i].key = k

MapGet(m, k) == m[CHOOSE i \in 1..Len(m) : m[i].key = k].value

MapSet(m, k, v) ==
    IF MapHas(m, k)
    THEN [i \in 1..Len(m) |-> IF m[i].key = k THEN [key |-> k, value |-> v] ELSE m[i]]
    ELSE Append(m, [key |-> k, value |-> v])

MapKeys(m) == [i \in 1..Len(m) |-> m[i].key]

MapValues(m) == [i \in 1..Len(m) |-> m[i].value]

\* new Map(entries): entries set one after the other
RECURSIVE MapOf(_, _)
MapOf(m, entries) ==
    IF entries = <<>> THEN m
    ELSE MapOf(MapSet(m, Head(entries).key, Head(entries).value), Tail(entries))

-----------------------------------------------------------------------------
(* types/core.ts: PortType                                                  *)

PortKinds == {"any", "string", "number", "boolean", "object", "array", "void", "custom"}

TypeNames == {"Foo", "Bar", "foo"}

\* the closed variant: only kind "custom" carries a typeName
PortTypes ==
    {[kind |-> k] : k \in PortKinds \ {"custom"}}
        \cup {[kind |-> "custom", typeName |-> t] : t \in TypeNames}

PT(k) == [kind |-> k]

-----------------------------------------------------------------------------
(* types/compatibility.ts: checkPortCompatibility                           *)

\* a plausible slip: the 'any' rule tested on the source side only
checkPortCompatibility_SourceAnyOnly(sp, tp) ==
    IF sp.kind = "any" \/ sp.kind = tp.kind
    THEN [valid |-> TRUE, sourceType |-> sp.kind, targetType |-> tp.kind]
    ELSE [valid |-> FALSE, sourceType |-> sp.kind, targetType |-> tp.kind,
          errorMessage |-> <<"Type mismatch: cannot connect ", sp.kind, " to ", tp.kind>>]

checkPortCompatibility(sp, tp) ==
    IF sp.kind = "any" \/ tp.kind = "any"
    THEN [valid |-> TRUE, sourceType |-> sp.kind, targetType |-> tp.kind]
    ELSE IF sp.kind = tp.kind
    THEN [valid |-> TRUE, sourceType |-> sp.kind, targetType |-> tp.kind]
    ELSE IF sp.kind = "custom" /\ tp.kind = "custom" /\ sp.typeName = tp.typeName
    THEN [valid |-> TRUE, sourceType |-> sp.typeName, targetType |-> tp.typeName]
    ELSE [valid |-> FALSE, sourceType |-> sp.kind, targetType |-> tp.kind,
          errorMessage |-> <<"Type mismatch: cannot connect ", sp.kind, " to ", tp.kind>>]

-----------------------------------------------------------------------------
(* types/node-types: the node factories used to build graph snapshots.      *)
(* position and description are presentation-only and left out; data is    *)
(* the node's configuration object, a sequence of [key, value] entries.     *)

createInputPort(id, portType, required) ==
    [id |-> id, portType |-> portType, required |-> required, direction |-> "input"]

createOutputPort(id, portType) ==
    [id |-> id, portType |-> portType, required |-> FALSE, direction |-> "output"]

createTimerTriggerNode(id) ==
    [id |-> id, type |-> "trigger.timer", category |-> "trigger", label |-> "Timer Trigger",
     inputs |-> <<>>,
     outputs |-> <<createOutputPort("timestamp", PT("number"))>>,
     data |-> <<>>]

createManualTriggerNode(id) ==
    [id |-> id, type |-> "trigger.manual", category |-> "trigger", label |-> "Manual Trigger",
     inputs |-> <<>>,
     outputs |-> <<createOutputPort("data", PT("any"))>>,
     data |-> <<>>]

createMapTransformNode(id) ==
    [id |-> id, type |-> "transform.map", category |-> "transform", label |-> "Map",
     inputs |-> <<createInputPort("input", PT("array"), TRUE)>>,
     outputs |-> <<createOutputPort("output", PT("array"))>>,
     data |-> <<>>]

createReduceTransformNode(id) ==
    [id |-> id, type |-> "transform.reduce", category |-> "transform", label |-> "Reduce",
     inputs |-> <<createInputPort("input", PT("array"), TRUE),
                  createInputPort("initial", PT("any"), FALSE)>>,
     outputs |-> <<createOutputPort("output", PT("any"))>>,
     data |-> <<>>]

createHttpEffectNode(id) ==
    [id |-> id, type |-> "effect.http", category |-> "effect", label |-> "HTTP Request",
     inputs |-> <<createInputPort("url", PT("string"), TRUE),
                  createInputPort("body", PT("object"), FALSE)>>,
     outputs |-> <<createOutputPort("response", PT("object"))>>,
     data |-> <<>>]

\* createConstantDataNode(id, position, value): data = { value }
createConstantDataNode(id, value) ==
    [id |-> id, type |-> "data.constant", category |-> "data", label |-> "Constant",
     inputs |-> <<>>,
     outputs |-> <<createOutputPort("value", PT("any"))>>,
     data |-> <<[key |-> "value", value |-> value]>>]

-----------------------------------------------------------------------------
(* engine/graph-validator: GraphValidator                                   *)

RECURSIVE Flatten(_)
Flatten(ss) == IF ss = <<>> THEN <<>> ELSE Head(ss) \o Flatten(Tail(ss))

Indices(s) == [i \in 1..Len(s) |-> i]

\* Map.get(k) || []
GetOrEmpty(m, k) == IF MapHas(m, k) THEN MapGet(m, k) ELSE <<>>

\* Map.get(k) || 0
GetOrZero(m, k) == IF MapHas(m, k) THEN MapGet(m, k) ELSE 0

RECURSIVE addEdges(_, _)
addEdges(adjacencyList, es) ==
    IF es = <<>> THEN adjacencyList
    ELSE LET edge == Head(es)
             neighbors == Append(GetOrEmpty(adjacencyList, edge.source), edge.target)
         IN addEdges(MapSet(adjacencyList, edge.source, neighbors), Tail(es))

buildAdjacencyList(nodes, edges) ==
    addEdges(MapOf(<<>>, [i \in 1..Len(nodes) |-> [key |-> nodes[i].key, value |-> <<>>]]),
             MapValues(edges))

RECURSIVE addReverseEdges(_, _)
addReverseEdges(reverseList, es) ==
    IF es = <<>> THEN reverseList
    ELSE LET edge == Head(es)
             predecessors == Append(GetOrEmpty(reverseList, edge.target), edge.source)
         IN addReverseEdges(MapSet(reverseList, edge.target, predecessors), Tail(es))

buildReverseAdjacencyList(nodes, edges) ==
    addReverseEdges(MapOf(<<>>, [i \in 1..Len(nodes) |-> [key |-> nodes[i].key, value |-> <<>>]]),
                    MapValues(edges))

\* constructor(graph)
GraphValidator(g) ==
    LET nodes == MapOf(<<>>, [i \in 1..Len(g.nodes) |-> [key |-> g.nodes[i].id, value |-> g.nodes[i]]])
        edges == MapOf(<<>>, [i \in 1..Len(g.edges) |-> [key |-> g.edges[i].id, value |-> g.edges[i]]])
    IN [graph |-> g, nodes |-> nodes, edges |-> edges,
        adjacencyList |-> buildAdjacencyList(nodes, edges),
        reverseAdjacencyList |-> buildReverseAdjacencyList(nodes, edges)]

(* detectCycles: st holds the closure's visited, recursionStack and cycle   *)
(* and the path array of the current top-level dfs call.                    *)
RECURSIVE dfs(_, _, _)
RECURSIVE dfsNeighbors(_, _, _, _)

dfs(this, nodeId, st) ==
    LET entered == [st EXCEPT !.visited = @ \cup {nodeId},
                              !.recursionStack = @ \cup {nodeId},
                              !.path = Append(@, nodeId)]
        after == dfsNeighbors(this, GetOrEmpty(this.adjacencyList, nodeId), 1, entered)
    IN IF after.found THEN after
       ELSE [after EXCEPT !.recursionStack = @ \ {nodeId},
                          !.path = SubSeq(@, 1, Len(@) - 1)]

\* a variant of the operator below that returns the whole path as the cycle
RECURSIVE dfsNeighbors_WholePath(_, _, _, _)
dfsNeighbors_WholePath(this, neighbors, i, st) ==
    IF i > Len(neighbors) THEN st
    ELSE LET neighbor == neighbors[i] IN
         IF neighbor \notin st.visited
         THEN LET sub == dfs(this, neighbor, st)
              IN IF sub.found THEN sub
                 ELSE dfsNeighbors_WholePath(this, neighbors, i + 1, sub)
         ELSE IF neighbor \in st.recursionStack
         THEN [st EXCEPT !.found = TRUE, !.cycle = st.path]
         ELSE dfsNeighbors_WholePath(this, neighbors, i + 1, st)

dfsNeighbors(this, neighbors, i, st) ==
    IF i > Len(neighbors) THEN st
    ELSE LET neighbor == neighbors[i] IN
         IF neighbor \notin st.visited
         THEN LET sub == dfs(this, neighbor, st)
              IN IF sub.found THEN sub ELSE dfsNeighbors(this, neighbors, i + 1, sub)
         ELSE IF neighbor \in st.recursionStack
         THEN [st EXCEPT !.found = TRUE,
                         !.cycle = SubSeq(st.path, IndexOf(st.path, neighbor), Len(st.path))]
         ELSE dfsNeighbors(this, neighbors, i + 1, st)

RECURSIVE detectFrom(_, _, _, _)
detectFrom(this, keys, i, st) ==
    IF i > Len(keys) THEN st
    ELSE IF keys[i] \in st.visited THEN detectFrom(this, keys, i + 1, st)
    ELSE LET sub == dfs(this, keys[i], [st EXCEPT !.path = <<>>])
         IN IF sub.found THEN sub ELSE detectFrom(this, keys, i + 1, sub)

detectCycles(this) ==
    LET st == detectFrom(this, MapKeys(this.nodes), 1,
                         [visited |-> {}, recursionStack |-> {}, path |-> <<>>,
                          cycle |-> <<>>, found |-> FALSE])
    IN IF st.found THEN [hasCycle |-> TRUE, cycle |-> st.cycle]
       ELSE [hasCycle |-> FALSE]

(* topologicalSort: Kahn's algorithm                                        *)
\* a variant of the in-degree count below that leaves every in-degree at zero
countInDegrees_Skipped(inDegree, neighbors) == inDegree

RECURSIVE countInDegrees(_, _)
countInDegrees(inDegree, neighbors) ==
    IF neighbors = <<>> THEN inDegree
    ELSE countInDegrees(MapSet(inDegree, Head(neighbors), GetOrZero(inDegree, Head(neighbors)) + 1),
                        Tail(neighbors))

\* the for-loop over one dequeued node's neighbours
RECURSIVE relax(_, _)
relax(st, neighbors) ==
    IF neighbors = <<>> THEN st
    ELSE LET neighbor == Head(neighbors)
             newDegree == GetOrZero(st.inDegree, neighbor) - 1
         IN relax([st EXCEPT !.inDegree = MapSet(@, neighbor, newDegree),
                             !.queue = IF newDegree = 0 THEN Append(@, neighbor) ELSE @],
                  Tail(neighbors))

\* the while-loop over the queue
RECURSIVE processQueue(_, _)
processQueue(this, st) ==
    IF st.queue = <<>> THEN st
    ELSE LET nodeId == Head(st.queue)
         IN processQueue(this,
                relax([st EXCEPT !.queue = Tail(@), !.result = Append(@, nodeId)],
                      GetOrEmpty(this.adjacencyList, nodeId)))

topologicalSort(this) ==
    LET keys == MapKeys(this.nodes)
        zero == MapOf(<<>>, [i \in 1..Len(keys) |-> [key |-> keys[i], value |-> 0]])
        inDegree == countInDegrees(zero, Flatten(MapValues(this.adjacencyList)))
        ready == SelectSeq(inDegree, LAMBDA e : e.value = 0)
        queue == [i \in 1..Len(ready) |-> ready[i].key]
        st == processQueue(this, [inDegree |-> inDegree, queue |-> queue, result |-> <<>>])
    IN IF Len(st.result) # Len(this.nodes)
       THEN [success |-> FALSE, reason |-> "Graph contains cycles",
             problematicNodes |-> SelectSeq(keys, LAMBDA id : id \notin Range(st.result))]
       ELSE [success |-> TRUE, order |-> st.result]

(* validate and its checks; an error is a record tagged by its type field   *)

\* a variant of the operator below that reports nothing
checkDuplicateIds_None(this) == <<>>

checkDuplicateIds(this) ==
    LET ns == this.graph.nodes
        es == this.graph.edges
        dupN == SelectSeq(Indices(ns), LAMBDA i : \E j \in 1..(i-1) : ns[j].id = ns[i].id)
        dupE == SelectSeq(Indices(es), LAMBDA i : \E j \in 1..(i-1) : es[j].id = es[i].id)
    IN [k \in 1..Len(dupN) |-> [type |-> "duplicate-node-id", nodeId |-> ns[dupN[k]].id]]
       \o [k \in 1..Len(dupE) |-> [type |-> "duplicate-edge-id", edgeId |-> es[dupE[k]].id]]

\* a variant of the operator below that reports nothing
checkMissingNodes_None(this) == <<>>

checkMissingNodes(this) ==
    LET es == MapValues(this.edges)
        missing(edge) ==
            (IF ~MapHas(this.nodes, edge.source)
             THEN <<[type |-> "missing-node", nodeId |-> edge.source, referencedBy |-> edge.id]>>
             ELSE <<>>)
            \o (IF ~MapHas(this.nodes, edge.target)
                THEN <<[type |-> "missing-node", nodeId |-> edge.target, referencedBy |-> edge.id]>>
                ELSE <<>>)
    IN Flatten([i \in 1..Len(es) |-> missing(es[i])])

checkInputSatisfaction(this) ==
    LET ns == MapValues(this.nodes)
        es == MapValues(this.edges)
        isConnected(node, input) ==
            \E i \in 1..Len(es) : es[i].target = node.id /\ es[i].targetPort = input.id
        unsatisfied(node) ==
            LET open == SelectSeq(node.inputs,
                                  LAMBDA input : input.required /\ ~isConnected(node, input))
            IN [k \in 1..Len(open) |->
                   [type |-> "unsatisfied-input", nodeId |-> node.id, portId |-> open[k].id]]
    IN Flatten([i \in 1..Len(ns) |-> unsatisfied(ns[i])])

\* Array.prototype.find by port id: <<port>> for the first match, <<>> for undefined
FindPort(ports, id) ==
    LET hits == SelectSeq(ports, LAMBDA p : p.id = id)
    IN IF hits = <<>> THEN <<>> ELSE <<Head(hits)>>

checkConnectionValidity(this) ==
    LET es == MapValues(this.edges)
        check(edge) ==
            IF ~MapHas(this.nodes, edge.source) \/ ~MapHas(this.nodes, edge.target)
            THEN <<>>
            ELSE LET sourceNode == MapGet(this.nodes, edge.source)
                     targetNode == MapGet(this.nodes, edge.target)
                     sp == FindPort(sourceNode.outputs, edge.sourcePort)
                     tp == FindPort(targetNode.inputs, edge.targetPort)
                 IN IF sp = <<>> \/ tp = <<>>
                    THEN <<[type |-> "invalid-connection", edgeId |-> edge.id,
                            reason |-> <<"Port not found">>]>>
                    ELSE LET compatibility ==
                                 checkPortCompatibility(sp[1].portType, tp[1].portType)
                         IN IF ~compatibility.valid
                            THEN <<[type |-> "invalid-connection", edgeId |-> edge.id,
                                    reason |-> compatibility.errorMessage]>>
                            ELSE <<>>
    IN Flatten([i \in 1..Len(es) |-> check(es[i])])

checkOrphanNodes(this) ==
    LET es == MapValues(this.edges)
        connectedNodes == {es[i].source : i \in 1..Len(es)} \cup {es[i].target : i \in 1..Len(es)}
        orphans == SelectSeq(MapKeys(this.nodes),
                             LAMBDA nodeId : nodeId \notin connectedNodes /\ Len(this.nodes) > 1)
    IN [k \in 1..Len(orphans) |-> [type |-> "orphan-node", nodeId |-> orphans[k]]]

validate(this) ==
    LET cyc == detectCycles(this)
        errors == checkDuplicateIds(this)
                  \o checkMissingNodes(this)
                  \o (IF cyc.hasCycle THEN <<[type |-> "cycle", nodes |-> cyc.cycle]>> ELSE <<>>)
                  \o checkInputSatisfaction(this)
                  \o checkConnectionValidity(this)
                  \o checkOrphanNodes(this)
    IN [valid |-> Len(errors) = 0, errors |-> errors]

-----------------------------------------------------------------------------
(* Bounds and the graph snapshots the specifications draw from.             *)

MaxTopoNodes == 3
MaxTopoEdges == 2

NodeIds == <<"a", "b", "c">>
EdgeIds == <<"e1", "e2", "e3", "e4">>

\* id lists up to renaming: the k-th new id of a list is the k-th id of ids
FirstUse(l) ==
    \A i \in DOMAIN l : \/ l[i] = 1 /\ i = 1
                        \/ \E j \in 1..(i-1) : l[j] = l[i]
                        \/ i > 1 /\ l[i] > 1 /\ (\E j \in 1..(i-1) : l[j] = l[i] - 1)
                                 /\ (\A j \in 1..(i-1) : l[j] < l[i])

IdLists(ids, maxLen) ==
    UNION {{[i \in 1..n |-> ids[l[i]]] : l \in {f \in [1..n -> 1..Len(ids)] : FirstUse(f)}}
           : n \in 0..maxLen}

\* a snapshot whose nodes are all transform.map nodes, edges output -> input
TopoGraph(ns, eids, ends) ==
    [nodes |-> [i \in 1..Len(ns) |-> createMapTransformNode(ns[i])],
     edges |-> [i \in 1..Len(eids) |->
                  [id |-> eids[i], source |-> ends[i][1], sourcePort |-> "output",
                   target |-> ends[i][2], targetPort |-> "input"]]]

EmptyGraph == [nodes |-> <<>>, edges |-> <<>>]

NotCalled == [called |-> FALSE]

Returned(r) == [called |-> TRUE, res |-> r]

-----------------------------------------------------------------------------
(* Variable groups and their values while a specification does not use them *)

compatVars == <<sourcePort, targetPort, compat>>
validatorVars == <<validation, sortResult, cycleResult, inferResult>>
execVars == <<state, inferred, pc, order, idx, context, pending, result, calls, started,
              finished>>

pluginVars == <<plugins, capabilityIndex, hookCalls, pluginCall>>

EmptyState == [nodeOutputs |-> <<>>, executedNodes |-> {}, logs |-> <<>>]

\* no execute call in flight
NoContext == [workflowId |-> "none", variables |-> <<>>, timestamp |-> 0]

CompatUnused == sourcePort = PT("any") /\ targetPort = PT("any") /\ compat = NotCalled

ValidatorUnused ==
    /\ validation = NotCalled /\ sortResult = NotCalled /\ cycleResult = NotCalled
    /\ inferResult = NotCalled

PluginUnused ==
    /\ plugins = <<>> /\ capabilityIndex = <<>> /\ hookCalls = <<>>
    /\ pluginCall = NotCalled

ExecUnused ==
    /\ state = EmptyState /\ inferred = <<>> /\ pc = "idle" /\ order = <<>> /\ idx = 0
    /\ context = NoContext /\ pending = <<>> /\ result = NotCalled /\ calls = 0
    /\ started = <<>> /\ finished = <<>>

-----------------------------------------------------------------------------
(* SpecCompat: checkPortCompatibility applied to every pair of port types   *)

InitCompat ==
    /\ sourcePort \in PortTypes /\ targetPort \in PortTypes /\ compat = NotCalled
    /\ graph = EmptyGraph /\ ValidatorUnused /\ ExecUnused /\ PluginUnused

CallCheckPortCompatibility ==
    /\ compat = NotCalled
    /\ compat' = Returned(checkPortCompatibility(sourcePort, targetPort))
    /\ UNCHANGED <<sourcePort, targetPort, graph, validatorVars, execVars, pluginVars>>

NextCompat == CallCheckPortCompatibility

SpecCompat == InitCompat /\ [][NextCompat]_vars

-----------------------------------------------------------------------------
(* SpecTopo: one GraphValidator built from a snapshot, one method called    *)

FreshValidator == ValidatorUnused

InitTopo ==
    /\ \E ns \in IdLists(NodeIds, MaxTopoNodes) :
       \E eids \in IdLists(EdgeIds, MaxTopoEdges) :
       \E ends \in [1..Len(eids) -> Range(NodeIds) \X Range(NodeIds)] :
           graph = TopoGraph(ns, eids, ends)
    /\ ValidatorUnused /\ CompatUnused /\ ExecUnused /\ PluginUnused

CallValidate ==
    /\ FreshValidator
    /\ validation' = Returned(validate(GraphValidator(graph)))
    /\ UNCHANGED <<graph, sortResult, cycleResult, inferResult, compatVars, pluginVars, execVars>>

CallTopologicalSort ==
    /\ FreshValidator
    /\ sortResult' = Returned(topologicalSort(GraphValidator(graph)))
    /\ UNCHANGED <<graph, validation, cycleResult, inferResult, compatVars, pluginVars, execVars>>

CallDetectCycles ==
    /\ FreshValidator
    /\ cycleResult' = Returned(detectCycles(GraphValidator(graph)))
    /\ UNCHANGED <<graph, validation, sortResult, inferResult, compatVars, pluginVars, execVars>>

NextTopo == CallValidate \/ CallTopologicalSort \/ CallDetectCycles

SpecTopo == InitTopo /\ [][NextTopo]_vars

-----------------------------------------------------------------------------
(* SpecValidate: validate() on snapshots of timer, map and reduce nodes     *)
(* with duplicate ids, dangling edges and edges naming ports a node lacks.  *)

MaxPortNodes == 2
MaxPortEdges == 2

PortNodeKinds == {"trigger.timer", "transform.map", "transform.reduce"}

NodeOfKind(kind, id) ==
    CASE kind = "trigger.timer" -> createTimerTriggerNode(id)
      [] kind = "transform.map" -> createMapTransformNode(id)
      [] kind = "transform.reduce" -> createReduceTransformNode(id)

EdgeSourcePorts == {"timestamp", "output"}
EdgeTargetPorts == {"input", "initial"}

\* the ids an edge may name: the listed ones and the next, unlisted one
EdgeEnds(ns) ==
    {NodeIds[k] : k \in 1..(IF Cardinality(Range(ns)) < Len(NodeIds)
                            THEN Cardinality(Range(ns)) + 1 ELSE Len(NodeIds))}

InitValidate ==
    /\ \E ns \in IdLists(NodeIds, MaxPortNodes) :
       \E kinds \in [1..Len(ns) -> PortNodeKinds] :
       \E eids \in IdLists(EdgeIds, MaxPortEdges) :
       \E es \in [1..Len(eids) ->
                    [source : EdgeEnds(ns), sourcePort : EdgeSourcePorts,
                     target : EdgeEnds(ns), targetPort : EdgeTargetPorts]] :
           graph = [nodes |-> [i \in 1..Len(ns) |-> NodeOfKind(kinds[i], ns[i])],
                    edges |-> [i \in 1..Len(eids) |->
                                 [id |-> eids[i], source |-> es[i].source,
                                  sourcePort |-> es[i].sourcePort,
                                  target |-> es[i].target,
                                  targetPort |-> es[i].targetPort]]]
    /\ ValidatorUnused /\ CompatUnused /\ ExecUnused /\ PluginUnused

NextValidate == CallValidate

SpecValidate == InitValidate /\ [][NextValidate]_vars

-----------------------------------------------------------------------------
(* JavaScript values carried by ports, node data and context variables.     *)
(* Each kind of value has its own payload field.                            *)

Undefined == [t |-> "undefined"]
NaN == [t |-> "NaN"]
Num(n) == [t |-> "number", n |-> n]
Str(s) == [t |-> "string", s |-> s]
Bool(b) == [t |-> "boolean", b |-> b]
Arr(items) == [t |-> "array", items |-> items]
Obj(entries) == [t |-> "object", entries |-> entries]

\* obj[k] on an object held as a sequence of [key, value] entries
Prop(obj, k) == IF MapHas(obj, k) THEN MapGet(obj, k) ELSE Undefined

\* Boolean(v)
Truthy(v) ==
    CASE v.t = "undefined" -> FALSE
      [] v.t = "NaN" -> FALSE
      [] v.t = "number" -> v.n # 0
      [] v.t = "string" -> v.s # ""
      [] v.t = "boolean" -> v.b
      [] OTHER -> TRUE

\* String(v), as a template literal `${v}` converts
RECURSIVE String(_)
RECURSIVE join(_)
String(v) ==
    CASE v.t = "undefined" -> "undefined"
      [] v.t = "NaN" -> "NaN"
      [] v.t = "number" -> ToString(v.n)
      [] v.t = "string" -> v.s
      [] v.t = "boolean" -> (IF v.b THEN "true" ELSE "false")
      [] v.t = "array" -> join(v.items)
      [] OTHER -> "[object Object]"

\* Array.prototype.join: undefined elements contribute the empty string
join(items) ==
    IF items = <<>> THEN ""
    ELSE LET first == IF Head(items).t = "undefined" THEN "" ELSE String(Head(items))
         IN IF Len(items) = 1 THEN first ELSE first \o "," \o join(Tail(items))

\* Number(v) of a primitive
ToNumber(v) ==
    CASE v.t = "number" -> v
      [] v.t = "boolean" -> Num(IF v.b THEN 1 ELSE 0)
      [] OTHER -> NaN

\* acc + x
Plus(acc, x) ==
    IF acc.t \in {"string", "array", "object"} \/ x.t \in {"string", "array", "object"}
    THEN Str(String(acc) \o String(x))
    ELSE IF ToNumber(acc) = NaN \/ ToNumber(x) = NaN THEN NaN
    ELSE Num(ToNumber(acc).n + ToNumber(x).n)

\* a === b; the operands the graph families hand to logic.compare are
\* primitives, for which strict equality is equality of type and value
StrictEquals(a, b) == a.t # "NaN" /\ a = b

\* input.reduce((acc, x) => acc + x, initial)
RECURSIVE reduce(_, _)
reduce(items, acc) ==
    IF items = <<>> THEN acc ELSE reduce(Tail(items), Plus(acc, Head(items)))

-----------------------------------------------------------------------------
(* engine/type-inference: TypeInferenceEngine                               *)

\* a completion: a returned (or resolved) value, or a thrown (rejected) error
Normal(v) == [threw |-> FALSE, value |-> v]
Throw(e) == [threw |-> TRUE, error |-> e]

\* `${nodeId}:${portId}`
makeKey(nodeId, portId) == <<nodeId, portId>>

\* Array.prototype.find by node id: <<node>> for the first match, <<>> for undefined
FindNode(nodes, nodeId) ==
    LET hits == SelectSeq(nodes, LAMBDA n : n.id = nodeId)
    IN IF hits = <<>> THEN <<>> ELSE <<Head(hits)>>

\* a variant of the operator below that records no output type
setOutputTypes_None(types, nodeId, outputs) == types

RECURSIVE setOutputTypes(_, _, _)
setOutputTypes(types, nodeId, outputs) ==
    IF outputs = <<>> THEN types
    ELSE LET output == Head(outputs)
         IN setOutputTypes(MapSet(types, makeKey(nodeId, output.id),
                                  [nodeId |-> nodeId, portId |-> output.id,
                                   portType |-> output.portType]),
                           nodeId, Tail(outputs))

\* a variant of the operator below in which a port's first entry is kept
RECURSIVE propagateOver_KeepExisting(_, _)
propagateOver_KeepExisting(types, outgoingEdges) ==
    IF outgoingEdges = <<>> THEN types
    ELSE LET edge == Head(outgoingEdges)
             sourceKey == makeKey(edge.source, edge.sourcePort)
             targetKey == makeKey(edge.target, edge.targetPort)
         IN propagateOver_KeepExisting(
                IF MapHas(types, sourceKey) /\ ~MapHas(types, targetKey)
                THEN MapSet(types, targetKey,
                            [nodeId |-> edge.target, portId |-> edge.targetPort,
                             portType |-> MapGet(types, sourceKey).portType,
                             inferredFrom |-> [nodeId |-> edge.source,
                                               portId |-> edge.sourcePort]])
                ELSE types,
                Tail(outgoingEdges))

RECURSIVE propagateOver(_, _)
propagateOver(types, outgoingEdges) ==
    IF outgoingEdges = <<>> THEN types
    ELSE LET edge == Head(outgoingEdges)
             sourceKey == makeKey(edge.source, edge.sourcePort)
             targetKey == makeKey(edge.target, edge.targetPort)
         IN propagateOver(
                IF MapHas(types, sourceKey)
                THEN MapSet(types, targetKey,
                            [nodeId |-> edge.target, portId |-> edge.targetPort,
                             portType |-> MapGet(types, sourceKey).portType,
                             inferredFrom |-> [nodeId |-> edge.source,
                                               portId |-> edge.sourcePort]])
                ELSE types,
                Tail(outgoingEdges))

\* a variant of the operator below that follows only the first outgoing edge
propagateTypes_FirstEdgeOnly(g, types, sourceNodeId) ==
    LET outgoingEdges == SelectSeq(g.edges, LAMBDA e : e.source = sourceNodeId)
    IN propagateOver(types, IF outgoingEdges = <<>> THEN <<>> ELSE <<Head(outgoingEdges)>>)

propagateTypes(g, types, sourceNodeId) ==
    propagateOver(types, SelectSeq(g.edges, LAMBDA e : e.source = sourceNodeId))

inferNodeTypes(g, types, nodeId) ==
    LET node == FindNode(g.nodes, nodeId)
    IN IF node = <<>> THEN types
       ELSE propagateTypes(g, setOutputTypes(types, nodeId, node[1].outputs), nodeId)

RECURSIVE inferInOrder(_, _, _)
inferInOrder(g, types, nodeIds) ==
    IF nodeIds = <<>> THEN types
    ELSE inferInOrder(g, inferNodeTypes(g, types, Head(nodeIds)), Tail(nodeIds))

\* the completion of inferTypes(); inferredTypes is cleared first either way
inferTypes(g) ==
    LET topSort == topologicalSort(GraphValidator(g))
    IN IF ~topSort.success
       THEN Throw(<<"Cannot infer types: graph contains cycles">>)
       ELSE Normal(inferInOrder(g, <<>>, topSort.order))

\* a variant of the operator below in which a failed sort does not stop the
\* inference: the listed nodes are processed in list order
inferredTypesAfter_NoAbort(g) ==
    inferInOrder(g, <<>>, [i \in 1..Len(g.nodes) |-> g.nodes[i].id])

\* this.inferredTypes once inferTypes() has completed: cleared, and filled
\* only past the throw
inferredTypesAfter(g) ==
    LET completion == inferTypes(g)
    IN IF completion.threw THEN <<>> ELSE completion.value

\* getInferredType(nodeId, portId): <<entry>>, or <<>> for undefined
getInferredType(types, nodeId, portId) ==
    IF MapHas(types, makeKey(nodeId, portId))
    THEN <<MapGet(types, makeKey(nodeId, portId))>> ELSE <<>>

\* the required input ports, in the order of the loops, that have no entry
missingInferences(g, types) ==
    LET missingOf(node) ==
            LET ports == SelectSeq(node.inputs,
                           LAMBDA input : input.required
                                          /\ getInferredType(types, node.id, input.id) = <<>>)
            IN [k \in 1..Len(ports) |-> [nodeId |-> node.id, portId |-> ports[k].id]]
    IN Flatten([i \in 1..Len(g.nodes) |-> missingOf(g.nodes[i])])

isInferenceComplete(g, types) ==
    \A i \in 1..Len(g.nodes) : \A k \in 1..Len(g.nodes[i].inputs) :
        g.nodes[i].inputs[k].required =>
            getInferredType(types, g.nodes[i].id, g.nodes[i].inputs[k].id) # <<>>

RECURSIVE sumOf(_)
sumOf(ns) == IF ns = <<>> THEN 0 ELSE Head(ns) + sumOf(Tail(ns))

getInferenceReport(g, types) ==
    [complete |-> Len(missingInferences(g, types)) = 0,
     totalPorts |-> sumOf([i \in 1..Len(g.nodes) |-> Len(g.nodes[i].inputs)]),
     inferredPorts |-> Len(types),
     missingInferences |-> missingInferences(g, types)]

-----------------------------------------------------------------------------
(* engine/executor: WorkflowExecutor                                        *)

\* this.state.logs.push(...); the ISO timestamp prefix of a line is left out
\* and a line is kept as the pieces of its template
log(st, message) == [st EXCEPT !.logs = Append(@, message)]

RECURSIVE gatherInto(_, _, _, _, _)
gatherInto(st, g, node, ports, inputs) ==
    IF ports = <<>> THEN Normal(inputs)
    ELSE LET input == Head(ports)
             edges == SelectSeq(g.edges,
                                LAMBDA e : e.target = node.id /\ e.targetPort = input.id)
         IN IF edges # <<>>
            THEN LET edge == Head(edges)
                     key == makeKey(edge.source, edge.sourcePort)
                 IN gatherInto(st, g, node, Tail(ports),
                               MapSet(inputs, input.id, Prop(st.nodeOutputs, key)))
            ELSE IF input.required
            THEN Throw(<<"Required input not connected: ", node.id, ":", input.id>>)
            ELSE gatherInto(st, g, node, Tail(ports), inputs)

gatherInputs(st, g, node) == gatherInto(st, g, node, node.inputs, <<>>)

executeTrigger(node, ctx) ==
    CASE node.type = "trigger.http" ->
           <<[key |-> "request",
              value |-> Obj(<<[key |-> "method", value |-> Str("GET")],
                              [key |-> "url", value |-> Str("/")],
                              [key |-> "timestamp", value |-> Num(ctx.timestamp)]>>)]>>
      [] node.type = "trigger.timer" ->
           <<[key |-> "timestamp", value |-> Num(ctx.timestamp)]>>
      [] node.type = "trigger.manual" ->
           <<[key |-> "data", value |-> Prop(ctx.variables, "triggerData")]>>
      [] OTHER -> <<>>

executeLogic(node, inputs) ==
    CASE node.type = "logic.if" ->
           LET condition == Truthy(Prop(inputs, "condition"))
           IN <<[key |-> "true", value |-> Bool(condition)],
                [key |-> "false", value |-> Bool(~condition)]>>
      [] node.type = "logic.compare" ->
           <<[key |-> "result",
              value |-> Bool(StrictEquals(Prop(inputs, "a"), Prop(inputs, "b")))]>>
      [] node.type = "logic.switch" ->
           <<[key |-> "case1", value |-> Bool(TRUE)],
             [key |-> "case2", value |-> Bool(FALSE)],
             [key |-> "default", value |-> Bool(FALSE)]>>
      [] OTHER -> <<>>

executeTransform(node, inputs) ==
    LET input == Prop(inputs, "input")
        initial == Prop(inputs, "initial")
    IN IF node.type \in {"transform.map", "transform.filter"} /\ input.t = "array"
       THEN <<[key |-> "output", value |-> Arr(input.items)]>>
       ELSE IF node.type = "transform.reduce" /\ input.t = "array"
       THEN <<[key |-> "output",
               value |-> reduce(input.items, IF Truthy(initial) THEN initial ELSE Num(0))]>>
       ELSE <<[key |-> "output", value |-> input]>>

\* returns the state after its log line and the outputs
executeEffect(st, node, inputs) ==
    CASE node.type = "effect.http" ->
           [state |-> log(st, <<"HTTP Request: ", String(Prop(inputs, "url"))>>),
            outputs |-> <<[key |-> "response",
                           value |-> Obj(<<[key |-> "status", value |-> Num(200)],
                                           [key |-> "data", value |-> Obj(<<>>)]>>)]>>]
      [] node.type = "effect.email" ->
           [state |-> log(st, <<"Email sent to: ", String(Prop(inputs, "to"))>>),
            outputs |-> <<[key |-> "result",
                           value |-> Obj(<<[key |-> "sent", value |-> Bool(TRUE)]>>)]>>]
      [] node.type = "effect.db" ->
           [state |-> log(st, <<"DB Write: ", String(Prop(inputs, "collection"))>>),
            outputs |-> <<[key |-> "result",
                           value |-> Obj(<<[key |-> "written", value |-> Bool(TRUE)]>>)]>>]
      [] OTHER -> [state |-> st, outputs |-> <<>>]

executeData(node) ==
    CASE node.type = "data.constant" -> <<[key |-> "value", value |-> Prop(node.data, "value")]>>
      [] node.type = "data.variable" ->
           <<[key |-> "value", value |-> Prop(node.data, "variableName")]>>
      [] OTHER -> <<>>

\* the state after the call and the completion of the returned promise
executeNodeLogic(st, node, inputs, ctx) ==
    CASE node.category = "trigger" ->
           [state |-> st, pending |-> Normal(executeTrigger(node, ctx))]
      [] node.category = "logic" ->
           [state |-> st, pending |-> Normal(executeLogic(node, inputs))]
      [] node.category = "transform" ->
           [state |-> st, pending |-> Normal(executeTransform(node, inputs))]
      [] node.category = "effect" ->
           LET r == executeEffect(st, node, inputs)
           IN [state |-> r.state, pending |-> Normal(r.outputs)]
      [] node.category = "data" ->
           [state |-> st, pending |-> Normal(executeData(node))]
      [] OTHER ->
           [state |-> st, pending |-> Throw(<<"Unknown node category: ", node.category>>)]

\* executeNode from its entry to its await (line 102), or to the throw that
\* rejects its promise before that
executeNodeStart(st, g, nodeId, ctx) ==
    LET node == FindNode(g.nodes, nodeId)
    IN IF node = <<>>
       THEN [state |-> st, pc |-> "awaitNode",
             pending |-> Throw(<<"Node not found: ", nodeId>>)]
       ELSE LET st1 == log(st, <<"Executing node: ", node[1].label, " (", node[1].type, ")">>)
                inputs == gatherInputs(st1, g, node[1])
            IN IF inputs.threw
               THEN [state |-> st1, pc |-> "awaitNode", pending |-> inputs]
               ELSE LET r == executeNodeLogic(st1, node[1], inputs.value, ctx)
                    IN [state |-> r.state, pc |-> "awaitLogic", pending |-> r.pending]

\* the for-loop over Object.entries(outputs) in executeNode
RECURSIVE storeOutputs(_, _, _)
storeOutputs(nodeOutputs, nodeId, outputs) ==
    IF outputs = <<>> THEN nodeOutputs
    ELSE storeOutputs(MapSet(nodeOutputs, makeKey(nodeId, Head(outputs).key), Head(outputs).value),
                      nodeId, Tail(outputs))

RECURSIVE readOutputs(_, _, _, _)
readOutputs(st, nodeId, ports, nodeOutputs) ==
    IF ports = <<>> THEN nodeOutputs
    ELSE readOutputs(st, nodeId, Tail(ports),
                     MapSet(nodeOutputs, Head(ports).id,
                            Prop(st.nodeOutputs, makeKey(nodeId, Head(ports).id))))

RECURSIVE collectFrom(_, _, _)
collectFrom(st, terminalNodes, outputs) ==
    IF terminalNodes = <<>> THEN outputs
    ELSE LET node == Head(terminalNodes)
         IN collectFrom(st, Tail(terminalNodes),
                        MapSet(outputs, node.id, readOutputs(st, node.id, node.outputs, <<>>)))

\* a variant of the operator below that reads the outputs of every node
collectOutputs_AllNodes(st, g) == collectFrom(st, g.nodes, <<>>)

collectOutputs(st, g) ==
    collectFrom(st,
                SelectSeq(g.nodes, LAMBDA node : ~\E i \in 1..Len(g.edges) :
                                                      g.edges[i].source = node.id),
                <<>>)

\* an ExecutionResult; its logs field is a reference to state.logs and is
\* read there
Success(output) == [success |-> TRUE, output |-> output]
Failure(message) == [success |-> FALSE, error |-> message]

\* a variant of the test below that lets every graph through
validationFailed_Never(v) == FALSE

\* if (!validation.valid): the test that makes execute return before any node
validationFailed(v) == ~v.valid

-----------------------------------------------------------------------------
(* Spec: one WorkflowExecutor built from a snapshot; execute is called up   *)
(* to MaxCalls times, one call after the other has returned.  execute is an *)
(* async function: a call runs to its first await in one step and is        *)
(* resumed in later steps.                                                  *)
(*   pc = "awaitLogic": executeNode is suspended at                         *)
(*                      `await this.executeNodeLogic(...)`, pending is the  *)
(*                      completion of that promise;                         *)
(*   pc = "awaitNode":  execute is suspended at `await this.executeNode`,   *)
(*                      pending is the completion of that promise.          *)

MaxNodes == 3
MaxEdges == 2
MaxCalls == 2

ExecNodeIds == <<"a", "b", "c", "d", "e">>

ExecEdgeIds == <<"e1", "e2", "e3">>

ExecNodeKinds == {"data.constant", "trigger.manual", "transform.map", "effect.http"}

\* the value a constant node is configured with
ConstantValueOf(id) == IF id = "a" THEN Arr(<<Num(1), Num(2)>>) ELSE Str("u")

ExecNode(kind, id) ==
    CASE kind = "data.constant" -> createConstantDataNode(id, ConstantValueOf(id))
      [] kind = "trigger.manual" -> createManualTriggerNode(id)
      [] kind = "transform.map" -> createMapTransformNode(id)
      [] kind = "effect.http" -> createHttpEffectNode(id)

\* edges from the first output port of a listed node, or from the next,
\* unlisted id, to any input port of a listed node ("input" where it has none)
ExecEdgeEnds(nodes) ==
    LET sources == {[source |-> nodes[i].id, sourcePort |-> nodes[i].outputs[1].id]
                      : i \in 1..Len(nodes)}
                   \cup {[source |-> ExecNodeIds[Len(nodes) + 1], sourcePort |-> "output"]}
        targetsOf(node) ==
            IF node.inputs = <<>>
            THEN {[target |-> node.id, targetPort |-> "input"]}
            ELSE {[target |-> node.id, targetPort |-> node.inputs[k].id]
                    : k \in 1..Len(node.inputs)}
        targets == UNION {targetsOf(nodes[j]) : j \in 1..Len(nodes)}
    IN sources \X targets

ExecContexts ==
    {[workflowId |-> "w1",
      variables |-> <<[key |-> "triggerData", value |-> Arr(<<Num(3)>>)]>>,
      timestamp |-> 1],
     [workflowId |-> "w1", variables |-> <<>>, timestamp |-> 2]}

Init ==
    /\ \E n \in 0..MaxNodes :
       \E kinds \in [1..n -> ExecNodeKinds] :
       \E m \in 0..MaxEdges :
           LET nodes == [i \in 1..n |-> ExecNode(kinds[i], ExecNodeIds[i])]
           IN \E ends \in [1..m -> ExecEdgeEnds(nodes)] :
                  graph = [nodes |-> nodes,
                           edges |-> [i \in 1..m |->
                                        [id |-> ExecEdgeIds[i],
                                         source |-> ends[i][1].source,
                                         sourcePort |-> ends[i][1].sourcePort,
                                         target |-> ends[i][2].target,
                                         targetPort |-> ends[i][2].targetPort]]]
    /\ ExecUnused /\ ValidatorUnused /\ CompatUnused /\ PluginUnused

\* execute returns: its promise resolves with r
Return(st, types, r) ==
    /\ state' = st /\ inferred' = types /\ result' = Returned(r)
    /\ pc' = "idle" /\ order' = <<>> /\ idx' = 0 /\ context' = NoContext /\ pending' = <<>>

\* the i-th iteration of the for-loop of execute up to its await, or, after
\* the last one, collectOutputs and the return
Iterate(st, types, ord, i, ctx) ==
    IF i > Len(ord)
    THEN /\ Return(st, types, Success(collectOutputs(st, graph)))
         /\ UNCHANGED started
    ELSE LET s == executeNodeStart(st, graph, ord[i], ctx)
         IN /\ state' = s.state /\ pc' = s.pc /\ pending' = s.pending
            /\ inferred' = types /\ order' = ord /\ idx' = i /\ context' = ctx
            /\ started' = Append(started, ord[i])
            /\ UNCHANGED result

\* execute(context) from the call to its first await or its return
Execute(ctx) ==
    /\ pc = "idle" /\ calls < MaxCalls
    /\ calls' = calls + 1
    /\ LET this == GraphValidator(graph)
           v == validate(this)
       IN IF validationFailed(v)
          THEN /\ Return(state, inferred,
                         Failure(<<"Graph validation failed: ", Len(v.errors), " errors">>))
               /\ started' = <<>> /\ finished' = <<>>
          ELSE LET types == inferTypes(graph)
               IN IF types.threw
                  THEN /\ Return(state, inferredTypesAfter(graph), Failure(types.error))
                       /\ started' = <<>> /\ finished' = <<>>
                  ELSE LET st1 == log(state, <<"Type inference complete">>)
                           topSort == topologicalSort(this)
                       IN IF ~topSort.success
                          THEN /\ Return(st1, types.value,
                                         Failure(<<"Cannot execute: graph contains cycles">>))
                               /\ started' = <<>> /\ finished' = <<>>
                          ELSE /\ finished' = <<>>
                               /\ IF topSort.order = <<>>
                                  THEN /\ Return(st1, types.value,
                                                 Success(collectOutputs(st1, graph)))
                                       /\ started' = <<>>
                                  ELSE LET s == executeNodeStart(st1, graph,
                                                                 topSort.order[1], ctx)
                                       IN /\ state' = s.state /\ pc' = s.pc
                                          /\ pending' = s.pending
                                          /\ inferred' = types.value
                                          /\ order' = topSort.order /\ idx' = 1
                                          /\ context' = ctx
                                          /\ started' = <<topSort.order[1]>>
                                          /\ UNCHANGED result
    /\ UNCHANGED <<graph, validatorVars, compatVars, pluginVars>>

\* executeNode resumed after `await this.executeNodeLogic(...)`: the outputs
\* are stored, the node joins executedNodes, and executeNode returns
ExecuteNodeResume ==
    /\ pc = "awaitLogic"
    /\ IF pending.threw
       THEN UNCHANGED <<state, pending, finished>>
       ELSE LET nodeId == order[idx]
                node == FindNode(graph.nodes, nodeId)[1]
                stored == [state EXCEPT
                             !.nodeOutputs = storeOutputs(@, nodeId, pending.value),
                             !.executedNodes = @ \cup {nodeId}]
            IN /\ state' = log(stored, <<"Node executed: ", node.label>>)
               /\ pending' = Normal(<<>>)
               /\ finished' = Append(finished, nodeId)
    /\ pc' = "awaitNode"
    /\ UNCHANGED <<graph, inferred, order, idx, context, result, calls, started,
                   validatorVars, compatVars, pluginVars>>

\* a variant of the action below without the catch block: a node's throw is
\* dropped and the loop goes on to the next node
ExecuteResume_ContinueOnThrow ==
    /\ pc = "awaitNode"
    /\ Iterate(state, inferred, order, idx + 1, context)
    /\ UNCHANGED <<graph, calls, finished, validatorVars, compatVars, pluginVars>>

\* execute resumed after `await this.executeNode(...)`: the catch block if
\* the node threw, the next iteration otherwise
ExecuteResume ==
    /\ pc = "awaitNode"
    /\ IF pending.threw
       THEN /\ Return(state, inferred, Failure(pending.error))
            /\ UNCHANGED started
       ELSE Iterate(state, inferred, order, idx + 1, context)
    /\ UNCHANGED <<graph, calls, finished, validatorVars, compatVars, pluginVars>>

Next ==
    \/ \E ctx \in ExecContexts : Execute(ctx)
    \/ ExecuteNodeResume
    \/ ExecuteResume

Spec == Init /\ [][Next]_vars

-----------------------------------------------------------------------------
(* SpecFault: the executor on graphs that hold nodes the node-logic        *)
(* dispatch does not recognize.  BaseNode.type is a plain string and the   *)
(* category is checked only by the compiler, so a snapshot built from      *)
(* stored data can carry a type tag outside the union of its category, or  *)
(* a category outside NodeCategory.                                        *)

MaxFaultNodes == 3
MaxFaultEdges == 2

\* a trigger node whose type tag is none of http, timer, manual
UnknownTypeNode(id) == [createManualTriggerNode(id) EXCEPT !.type = "trigger.cron",
                                                           !.label = "Cron Trigger"]

\* a node whose category is none of the five
UnknownCategoryNode(id) ==
    [createConstantDataNode(id, ConstantValueOf(id)) EXCEPT !.type = "plugin.custom",
                                                            !.category = "plugin",
                                                            !.label = "Plugin"]

FaultNode(kind, id) ==
    CASE kind = "transform.map" -> createMapTransformNode(id)
      [] kind = "trigger.cron" -> UnknownTypeNode(id)
      [] kind = "plugin.custom" -> UnknownCategoryNode(id)

InitFault ==
    /\ \E n \in 0..MaxFaultNodes :
       \E kinds \in [1..n -> {"transform.map", "trigger.cron", "plugin.custom"}] :
       \E m \in 0..MaxFaultEdges :
           LET nodes == [i \in 1..n |-> FaultNode(kinds[i], ExecNodeIds[i])]
           IN \E ends \in [1..m -> ExecEdgeEnds(nodes)] :
                  graph = [nodes |-> nodes,
                           edges |-> [i \in 1..m |->
                                        [id |-> ExecEdgeIds[i],
                                         source |-> ends[i][1].source,
                                         sourcePort |-> ends[i][1].sourcePort,
                                         target |-> ends[i][2].target,
                                         targetPort |-> ends[i][2].targetPort]]]
    /\ ExecUnused /\ ValidatorUnused /\ CompatUnused /\ PluginUnused

SpecFault == InitFault /\ [][Next]_vars

-----------------------------------------------------------------------------
(* SpecRace: two execute calls on one WorkflowExecutor, the second made     *)
(* while the first may still be suspended at an await.  this.state, the     *)
(* validator and the inference engine are the instance's and are shared;    *)
(* each call has its own position, loop variables and context, so pc,       *)
(* order, idx, context, pending, result, started and finished are functions *)
(* of the call number here.                                                 *)

MaxRaceNodes == 2
MaxRaceEdges == 1
MaxRaceCalls == 2

RaceCalls == 1..MaxRaceCalls

InitRace ==
    /\ \E n \in 0..MaxRaceNodes :
       \E kinds \in [1..n -> {"trigger.manual", "transform.map", "data.constant"}] :
       \E m \in 0..MaxRaceEdges :
           LET nodes == [i \in 1..n |-> ExecNode(kinds[i], ExecNodeIds[i])]
           IN \E ends \in [1..m -> ExecEdgeEnds(nodes)] :
                  graph = [nodes |-> nodes,
                           edges |-> [i \in 1..m |->
                                        [id |-> ExecEdgeIds[i],
                                         source |-> ends[i][1].source,
                                         sourcePort |-> ends[i][1].sourcePort,
                                         target |-> ends[i][2].target,
                                         targetPort |-> ends[i][2].targetPort]]]
    /\ state = EmptyState /\ inferred = <<>> /\ calls = 0
    /\ pc = [c \in RaceCalls |-> "notCalled"]
    /\ order = [c \in RaceCalls |-> <<>>]
    /\ idx = [c \in RaceCalls |-> 0]
    /\ context = [c \in RaceCalls |-> NoContext]
    /\ pending = [c \in RaceCalls |-> <<>>]
    /\ result = [c \in RaceCalls |-> NotCalled]
    /\ started = [c \in RaceCalls |-> <<>>]
    /\ finished = [c \in RaceCalls |-> <<>>]
    /\ ValidatorUnused /\ CompatUnused /\ PluginUnused

\* call c returns r
RaceReturn(c, st, types, r) ==
    /\ state' = st /\ inferred' = types
    /\ result' = [result EXCEPT ![c] = Returned(r)]
    /\ pc' = [pc EXCEPT ![c] = "returned"]
    /\ pending' = [pending EXCEPT ![c] = <<>>]

\* the i-th iteration of call c's for-loop up to its await, or, after the
\* last one, collectOutputs and the return
RaceIterate(c, st, types, ord, i, ctx) ==
    IF i > Len(ord)
    THEN /\ RaceReturn(c, st, types, Success(collectOutputs(st, graph)))
         /\ order' = [order EXCEPT ![c] = ord]
         /\ idx' = [idx EXCEPT ![c] = i]
         /\ context' = [context EXCEPT ![c] = ctx]
         /\ started' = [started EXCEPT ![c] = IF i = 1 THEN <<>> ELSE @]
    ELSE LET s == executeNodeStart(st, graph, ord[i], ctx)
         IN /\ state' = s.state /\ inferred' = types
            /\ pc' = [pc EXCEPT ![c] = s.pc]
            /\ pending' = [pending EXCEPT ![c] = s.pending]
            /\ order' = [order EXCEPT ![c] = ord]
            /\ idx' = [idx EXCEPT ![c] = i]
            /\ context' = [context EXCEPT ![c] = ctx]
            /\ started' = [started EXCEPT ![c] = IF i = 1 THEN <<ord[i]>>
                                                 ELSE Append(@, ord[i])]
            /\ UNCHANGED result

\* the caller calls execute(ctx) for the c-th time, with a context that
\* differs from those of the earlier calls; the call runs to its first await
\* or to its return
RaceExecute(c, ctx) ==
    /\ c = calls + 1 /\ c \in RaceCalls
    /\ \A d \in 1..calls : context[d] # ctx
    /\ calls' = c
    /\ LET this == GraphValidator(graph)
           v == validate(this)
       IN IF validationFailed(v)
          THEN /\ RaceReturn(c, state, inferred,
                             Failure(<<"Graph validation failed: ", Len(v.errors),
                                       " errors">>))
               /\ context' = [context EXCEPT ![c] = ctx]
               /\ UNCHANGED <<order, idx, started>>
          ELSE LET types == inferTypes(graph)
               IN IF types.threw
                  THEN /\ RaceReturn(c, state, inferredTypesAfter(graph),
                                     Failure(types.error))
                       /\ context' = [context EXCEPT ![c] = ctx]
                       /\ UNCHANGED <<order, idx, started>>
                  ELSE LET st1 == log(state, <<"Type inference complete">>)
                           topSort == topologicalSort(this)
                       IN IF ~topSort.success
                          THEN /\ RaceReturn(c, st1, types.value,
                                             Failure(<<"Cannot execute: graph contains cycles">>))
                               /\ context' = [context EXCEPT ![c] = ctx]
                               /\ UNCHANGED <<order, idx, started>>
                          ELSE RaceIterate(c, st1, types.value, topSort.order, 1, ctx)
    /\ UNCHANGED <<graph, finished, validatorVars, compatVars, pluginVars>>

\* call c's executeNode resumed after `await this.executeNodeLogic(...)`
RaceExecuteNodeResume(c) ==
    /\ pc[c] = "awaitLogic"
    /\ IF pending[c].threw
       THEN UNCHANGED <<state, pending, finished>>
       ELSE LET nodeId == order[c][idx[c]]
                node == FindNode(graph.nodes, nodeId)[1]
                stored == [state EXCEPT
                             !.nodeOutputs = storeOutputs(@, nodeId, pending[c].value),
                             !.executedNodes = @ \cup {nodeId}]
            IN /\ state' = log(stored, <<"Node executed: ", node.label>>)
               /\ pending' = [pending EXCEPT ![c] = Normal(<<>>)]
               /\ finished' = [finished EXCEPT ![c] = Append(@, nodeId)]
    /\ pc' = [pc EXCEPT ![c] = "awaitNode"]
    /\ UNCHANGED <<graph, inferred, order, idx, context, result, calls, started,
                   validatorVars, compatVars, pluginVars>>

\* call c's execute resumed after `await this.executeNode(...)`
RaceExecuteResume(c) ==
    /\ pc[c] = "awaitNode"
    /\ IF pending[c].threw
       THEN /\ RaceReturn(c, state, inferred, Failure(pending[c].error))
            /\ UNCHANGED <<order, idx, context, started>>
       ELSE RaceIterate(c, state, inferred, order[c], idx[c] + 1, context[c])
    /\ UNCHANGED <<graph, calls, finished, validatorVars, compatVars, pluginVars>>

NextRace ==
    \/ \E c \in RaceCalls : \E ctx \in ExecContexts : RaceExecute(c, ctx)
    \/ \E c \in RaceCalls : RaceExecuteNodeResume(c)
    \/ \E c \in RaceCalls : RaceExecuteResume(c)

SpecRace == InitRace /\ [][NextRace]_vars

-----------------------------------------------------------------------------
(* SpecInfer: one TypeInferenceEngine built from a snapshot, inferTypes     *)
(* called once.  `inferred` is the engine's inferredTypes map.              *)

MaxInferNodes == 3
MaxInferEdges == 2

InitInfer ==
    /\ \E n \in 0..MaxInferNodes :
       \E kinds \in [1..n -> {"trigger.timer", "transform.reduce"}] :
       \E eids \in IdLists(EdgeIds, MaxInferEdges) :
       \E es \in [1..Len(eids) ->
                    [source : {ExecNodeIds[k] : k \in 1..(n + 1)},
                     sourcePort : EdgeSourcePorts,
                     target : {ExecNodeIds[k] : k \in 1..n},
                     targetPort : EdgeTargetPorts]] :
           graph = [nodes |-> [i \in 1..n |-> NodeOfKind(kinds[i], ExecNodeIds[i])],
                    edges |-> [i \in 1..Len(eids) |->
                                 [id |-> eids[i], source |-> es[i].source,
                                  sourcePort |-> es[i].sourcePort,
                                  target |-> es[i].target,
                                  targetPort |-> es[i].targetPort]]]
    /\ ValidatorUnused /\ CompatUnused /\ ExecUnused /\ PluginUnused

CallInferTypes ==
    /\ inferResult = NotCalled
    /\ inferResult' = Returned([threw |-> inferTypes(graph).threw])
    /\ inferred' = inferredTypesAfter(graph)
    /\ UNCHANGED <<graph, validation, sortResult, cycleResult, compatVars, pluginVars,
                   state, pc, order, idx, context, pending, result, calls, started,
                   finished>>

NextInfer == CallInferTypes

SpecInfer == InitInfer /\ [][NextInfer]_vars

-----------------------------------------------------------------------------
(* SpecPlugin: one PluginManager and the calls register, unregister and     *)
(* clear made on it.  A plugin is an object of PluginPool; two objects may  *)
(* carry the same metadata.id.  A lifecycle hook either returns (void, or a *)
(* promise, whose settling changes nothing in the manager: a rejection is   *)
(* only logged) or throws synchronously; which one is the plugin's choice   *)
(* at each call.  A Set of ids is a sequence without repetition, in         *)
(* insertion order.                                                         *)

MaxPluginCalls == 4

PluginCapabilities ==
    {"node-provider", "validator", "executor", "transformer", "ui-extension"}

PluginPool ==
    <<[metadata |-> [id |-> "p", name |-> "P", version |-> "1"],
       capabilities |-> <<"node-provider", "validator">>],
      [metadata |-> [id |-> "p", name |-> "P", version |-> "2"],
       capabilities |-> <<"executor">>],
      [metadata |-> [id |-> "q", name |-> "Q", version |-> "1"],
       capabilities |-> <<"validator">>]>>

PluginObjects == 1..Len(PluginPool)

PluginIds == {"p", "q", "r"}

HookOutcomes == {"returns", "throws"}

InitPlugin ==
    /\ plugins = <<>> /\ capabilityIndex = <<>>
    /\ hookCalls = [o \in PluginObjects |-> [initialize |-> 0, cleanup |-> 0]]
    /\ pluginCall = NotCalled
    /\ graph = EmptyGraph
    /\ ValidatorUnused /\ CompatUnused /\ ExecUnused

\* Set.prototype.add
SetAdd(set, x) == IF x \in Range(set) THEN set ELSE Append(set, x)

\* a variant of the operator below that indexes the first capability only
indexCapabilities_FirstOnly(index, capabilities, pluginId) ==
    IF capabilities = <<>> THEN index
    ELSE MapSet(index, Head(capabilities),
                SetAdd(IF MapHas(index, Head(capabilities))
                       THEN MapGet(index, Head(capabilities)) ELSE <<>>, pluginId))

\* the for-loop of register over plugin.capabilities
RECURSIVE indexCapabilities(_, _, _)
indexCapabilities(index, capabilities, pluginId) ==
    IF capabilities = <<>> THEN index
    ELSE LET capability == Head(capabilities)
             withSet == IF MapHas(index, capability) THEN index
                        ELSE MapSet(index, capability, <<>>)
         IN indexCapabilities(
                MapSet(withSet, capability, SetAdd(MapGet(withSet, capability), pluginId)),
                Tail(capabilities), pluginId)

\* the for-loop of unregister over plugin.capabilities
RECURSIVE unindexCapabilities(_, _, _)
unindexCapabilities(index, capabilities, pluginId) ==
    IF capabilities = <<>> THEN index
    ELSE LET capability == Head(capabilities)
         IN unindexCapabilities(
                IF MapHas(index, capability)
                THEN MapSet(index, capability, SelectSeq(MapGet(index, capability), LAMBDA id : id # pluginId))
                ELSE index,
                Tail(capabilities), pluginId)

\* a variant of the operator below without the test for a registered id
register_Overwrite(mgr, o, hook) ==
    LET plugin == PluginPool[o]
        id == plugin.metadata.id
        called == [mgr EXCEPT !.hookCalls[o].initialize = @ + 1]
    IN IF hook = "throws"
       THEN [called EXCEPT !.completion = Throw(<<"initialize threw">>)]
       ELSE [called EXCEPT
                !.plugins = MapSet(@, id, o),
                !.capabilityIndex = indexCapabilities(@, plugin.capabilities, id),
                !.completion = Normal(<<>>)]

\* the manager after register(plugin o) with initialize() completing as hook
register(mgr, o, hook) ==
    LET plugin == PluginPool[o]
        id == plugin.metadata.id
    IN IF MapHas(mgr.plugins, id)
       THEN [mgr EXCEPT !.completion = Throw(<<"Plugin already registered: ", id>>)]
       ELSE LET called == [mgr EXCEPT !.hookCalls[o].initialize = @ + 1]
            IN IF hook = "throws"
               THEN [called EXCEPT !.completion = Throw(<<"initialize threw">>)]
               ELSE [called EXCEPT
                        !.plugins = MapSet(@, id, o),
                        !.capabilityIndex = indexCapabilities(@, plugin.capabilities, id),
                        !.completion = Normal(<<>>)]

\* the manager after unregister(pluginId) with cleanup() completing as hook
unregister(mgr, pluginId, hook) ==
    IF ~MapHas(mgr.plugins, pluginId)
    THEN [mgr EXCEPT !.completion = Normal(<<>>)]
    ELSE LET o == MapGet(mgr.plugins, pluginId)
             called == [mgr EXCEPT !.hookCalls[o].cleanup = @ + 1]
         IN IF hook = "throws"
            THEN [called EXCEPT !.completion = Throw(<<"cleanup threw">>)]
            ELSE [called EXCEPT
                     !.capabilityIndex = unindexCapabilities(@, PluginPool[o].capabilities,
                                                             pluginId),
                     !.plugins = SelectSeq(@, LAMBDA e : e.key # pluginId),
                     !.completion = Normal(<<>>)]

\* the for-loop of clear over the ids registered when it was called; hooks
\* gives the outcome of each plugin's cleanup
RECURSIVE clearLoop(_, _, _)
clearLoop(mgr, ids, hooks) ==
    IF ids = <<>> THEN [mgr EXCEPT !.completion = Normal(<<>>)]
    ELSE LET after == unregister(mgr, Head(ids), hooks[Head(ids)])
         IN IF after.completion.threw THEN after
            ELSE clearLoop(after, Tail(ids), hooks)

clear(mgr, hooks) == clearLoop(mgr, MapKeys(mgr.plugins), hooks)

has(mgr, pluginId) == MapHas(mgr.plugins, pluginId)

\* the plugin objects getByCapability(capability) returns, in order
getByCapability(mgr, capability) ==
    LET pluginIds == IF MapHas(mgr.capabilityIndex, capability)
                     THEN MapGet(mgr.capabilityIndex, capability) ELSE <<>>
        found == SelectSeq(pluginIds,
                   LAMBDA id : /\ MapHas(mgr.plugins, id)
                               /\ capability \in
                                    Range(PluginPool[MapGet(mgr.plugins, id)].capabilities))
    IN [i \in 1..Len(found) |-> MapGet(mgr.plugins, found[i])]

Manager == [plugins |-> plugins, capabilityIndex |-> capabilityIndex,
            hookCalls |-> hookCalls, completion |-> Normal(<<>>)]

PluginCallsMade ==
    IF pluginCall.called THEN pluginCall.res.number ELSE 0

\* a call completes: the manager's fields and the record of the call
Completes(mgr, op, arg) ==
    /\ plugins' = mgr.plugins
    /\ capabilityIndex' = mgr.capabilityIndex
    /\ hookCalls' = mgr.hookCalls
    /\ pluginCall' = Returned([op |-> op, arg |-> arg, completion |-> mgr.completion,
                               number |-> PluginCallsMade + 1])
    /\ UNCHANGED <<graph, validatorVars, compatVars, execVars>>

Register(o, hook) ==
    /\ PluginCallsMade < MaxPluginCalls
    /\ Completes(register(Manager, o, hook), "register", PluginPool[o].metadata.id)

Unregister(pluginId, hook) ==
    /\ PluginCallsMade < MaxPluginCalls
    /\ Completes(unregister(Manager, pluginId, hook), "unregister", pluginId)

Clear(hooks) ==
    /\ PluginCallsMade < MaxPluginCalls
    /\ Completes(clear(Manager, hooks), "clear", "")

NextPlugin ==
    \/ \E o \in PluginObjects : \E hook \in HookOutcomes : Register(o, hook)
    \/ \E pluginId \in PluginIds : \E hook \in HookOutcomes : Unregister(pluginId, hook)
    \/ \E hooks \in [PluginIds -> HookOutcomes] : Clear(hooks)

SpecPlugin == InitPlugin /\ [][NextPlugin]_vars

-----------------------------------------------------------------------------
(* SpecValid: validate called on snapshots among which some are valid and   *)
(* have edges: constant nodes feeding reduce nodes, next to snapshots with  *)
(* repeated ids, dangling edges and missing ports.                          *)

MaxValidNodes == 2
MaxValidEdges == 2

ValidNodeKinds == {"data.constant", "transform.reduce"}

ValidNode(kind, id) ==
    CASE kind = "data.constant" -> createConstantDataNode(id, Str("u"))
      [] kind = "transform.reduce" -> createReduceTransformNode(id)

InitValid ==
    /\ \E ns \in IdLists(NodeIds, MaxValidNodes) :
       \E kinds \in [1..Len(ns) -> ValidNodeKinds] :
       \E eids \in IdLists(EdgeIds, MaxValidEdges) :
       \E es \in [1..Len(eids) ->
                    [source : EdgeEnds(ns), sourcePort : {"value", "output"},
                     target : EdgeEnds(ns), targetPort : EdgeTargetPorts]] :
           graph = [nodes |-> [i \in 1..Len(ns) |-> ValidNode(kinds[i], ns[i])],
                    edges |-> [i \in 1..Len(eids) |->
                                 [id |-> eids[i], source |-> es[i].source,
                                  sourcePort |-> es[i].sourcePort,
                                  target |-> es[i].target,
                                  targetPort |-> es[i].targetPort]]]
    /\ ValidatorUnused /\ CompatUnused /\ ExecUnused /\ PluginUnused

NextValid == CallValidate

SpecValid == InitValid /\ [][NextValid]_vars

-----------------------------------------------------------------------------
(* The boundary structural checks: each returns a list of messages, a       *)
(* message being the tuple of the pieces of its template.                   *)

validateEdgeReferences(g) ==
    LET nodeIds == {g.nodes[i].id : i \in 1..Len(g.nodes)}
        errorsOf(edge) ==
            (IF edge.source \notin nodeIds
             THEN <<<<"Edge ", edge.id, " references missing source node ", edge.source>>>>
             ELSE <<>>)
            \o (IF edge.target \notin nodeIds
                THEN <<<<"Edge ", edge.id, " references missing target node ", edge.target>>>>
                ELSE <<>>)
    IN Flatten([i \in 1..Len(g.edges) |-> errorsOf(g.edges[i])])

\* the ids found again after an earlier element with the same id
duplicatedIds(items) ==
    LET again == SelectSeq(Indices(items),
                           LAMBDA i : \E j \in 1..(i - 1) : items[j].id = items[i].id)
    IN [k \in 1..Len(again) |-> items[again[k]].id]

validateUniqueNodeIds(g) == duplicatedIds(g.nodes)

validateUniqueEdgeIds(g) == duplicatedIds(g.edges)

validatePortReferences(g) ==
    LET nodeMap == MapOf(<<>>, [i \in 1..Len(g.nodes) |->
                                  [key |-> g.nodes[i].id, value |-> g.nodes[i]]])
        errorsOf(edge) ==
            (IF MapHas(nodeMap, edge.source)
                /\ ~\E k \in 1..Len(MapGet(nodeMap, edge.source).outputs) :
                       MapGet(nodeMap, edge.source).outputs[k].id = edge.sourcePort
             THEN <<<<"Edge ", edge.id, ": source node ", edge.source,
                      " has no output port ", edge.sourcePort>>>>
             ELSE <<>>)
            \o (IF MapHas(nodeMap, edge.target)
                   /\ ~\E k \in 1..Len(MapGet(nodeMap, edge.target).inputs) :
                          MapGet(nodeMap, edge.target).inputs[k].id = edge.targetPort
                THEN <<<<"Edge ", edge.id, ": target node ", edge.target,
                         " has no input port ", edge.targetPort>>>>
                ELSE <<>>)
    IN Flatten([i \in 1..Len(g.edges) |-> errorsOf(g.edges[i])])

-----------------------------------------------------------------------------
(* Graph notions the claims are stated in, defined on the snapshot itself   *)
(* (its node list and its edge list), independently of the validator.       *)

ListedNodes(g) == {g.nodes[i].id : i \in 1..Len(g.nodes)}

\* the arcs of the edge list
Arcs(g) == {<<g.edges[i].source, g.edges[i].target>> : i \in 1..Len(g.edges)}

\* the arcs of the edge list that join two listed nodes
ArcsAmongNodes(g) == {a \in Arcs(g) : a[1] \in ListedNodes(g) /\ a[2] \in ListedNodes(g)}

Successors(arcs, S) == {a[2] : a \in {b \in arcs : b[1] \in S}}

RECURSIVE Closure(_, _)
Closure(arcs, S) ==
    LET next == S \cup Successors(arcs, S)
    IN IF next = S THEN S ELSE Closure(arcs, next)

\* v lies on a directed cycle of arcs (a self-loop included)
OnCycle(arcs, v) == v \in Closure(arcs, Successors(arcs, {v}))

HasDirectedCycle(arcs) == \E a \in arcs : OnCycle(arcs, a[1])

NoDuplicates(s) == \A i, j \in 1..Len(s) : s[i] = s[j] => i = j

-----------------------------------------------------------------------------
(* C1: execute refuses to run an invalid graph.  Whenever validate reports  *)
(* at least one error for the executor's graph, every execute call made so  *)
(* far has returned a failure result without suspending, and no node was    *)
(* executed: the executed-node set and the output store are empty, no node  *)
(* was entered, and the log holds no node start or finish line.             *)
NodeLogLines == {"Executing node: ", "Node executed: "}

C1_RefusesInvalidGraph ==
    Len(validate(GraphValidator(graph)).errors) > 0 =>
        /\ pc = "idle"
        /\ calls > 0 => result.called /\ ~result.res.success
        /\ state.executedNodes = {}
        /\ state.nodeOutputs = <<>>
        /\ started = <<>> /\ finished = <<>>
        /\ \A i \in 1..Len(state.logs) : state.logs[i][1] \notin NodeLogLines

\* execute was called on a graph with validation errors and returned failure
C1_Witness ==
    /\ Len(validate(GraphValidator(graph)).errors) > 0
    /\ calls > 0
    /\ result.called /\ ~result.res.success

(* C2: within one execute call nodes run strictly sequentially in           *)
(* topological order.  While a call is in flight the nodes entered so far   *)
(* are a prefix of the order, all but possibly the last of them have        *)
(* returned, and each returned node is in the executed-node set with every  *)
(* one of its output ports committed to the output store; at the moment a   *)
(* node has started, every source of an edge into it has already returned.  *)
OutputsStored(nodeId) ==
    \A i \in 1..Len(graph.nodes) :
        graph.nodes[i].id = nodeId =>
            \A k \in 1..Len(graph.nodes[i].outputs) :
                MapHas(state.nodeOutputs, makeKey(nodeId, graph.nodes[i].outputs[k].id))

C2_SequentialTopologicalOrder ==
    pc # "idle" =>
        /\ idx \in 1..Len(order)
        /\ started = SubSeq(order, 1, idx)
        /\ finished = SubSeq(order, 1, Len(finished))
        /\ Len(finished) \in {idx - 1, idx}
        /\ pc = "awaitLogic" => Len(finished) = idx - 1
        /\ \A j \in 1..Len(finished) :
               finished[j] \in state.executedNodes /\ OutputsStored(finished[j])
        /\ pc = "awaitLogic" =>
               \A i \in 1..Len(graph.edges) :
                   graph.edges[i].target = order[idx] =>
                       graph.edges[i].source \in Range(finished)

\* a node with an incoming edge has started after an earlier node returned
C2_Witness ==
    /\ pc = "awaitLogic" /\ idx > 1
    /\ \E i \in 1..Len(graph.edges) : graph.edges[i].target = order[idx]

-----------------------------------------------------------------------------
(* C3: for every acyclic graph topologicalSort succeeds and the order holds *)
(* every node of the graph exactly once; a failure implies a directed cycle. *)
(* "Acyclic" is read in the claim's favour: no directed cycle in the whole   *)
(* edge list.                                                               *)
C3_AcyclicSortSucceeds ==
    sortResult.called /\ ~HasDirectedCycle(Arcs(graph))
        => /\ sortResult.res.success
           /\ Range(sortResult.res.order) = ListedNodes(graph)
           /\ NoDuplicates(sortResult.res.order)

(* C4: for every graph with a directed cycle (among its nodes)              *)
(* topologicalSort fails and problematicNodes holds every node on a cycle.  *)
C4_CyclicSortFails ==
    sortResult.called /\ HasDirectedCycle(ArcsAmongNodes(graph))
        => /\ ~sortResult.res.success
           /\ \A v \in ListedNodes(graph) :
                  OnCycle(ArcsAmongNodes(graph), v)
                      => v \in Range(sortResult.res.problematicNodes)

(* C5: whenever topologicalSort succeeds, every edge of the graph has its   *)
(* source strictly before its target in the order, and no node is twice in  *)
(* the order.                                                               *)
C5_OrderIsTopological ==
    sortResult.called /\ sortResult.res.success
        => /\ NoDuplicates(sortResult.res.order)
           /\ \A a \in Arcs(graph) :
                  /\ IndexOf(sortResult.res.order, a[1]) > 0
                  /\ IndexOf(sortResult.res.order, a[2]) > 0
                  /\ IndexOf(sortResult.res.order, a[1]) < IndexOf(sortResult.res.order, a[2])

(* C6: detectCycles reports hasCycle=true if and only if the edge list has  *)
(* a directed cycle among the graph's nodes.                                *)
C6_DetectsExactlyCycles ==
    cycleResult.called
        => (cycleResult.res.hasCycle <=> HasDirectedCycle(ArcsAmongNodes(graph)))

(* C7: two custom port types are compatible if and only if their typeName   *)
(* strings are equal.                                                       *)
C7_CustomByTypeName ==
    compat.called /\ sourcePort.kind = "custom" /\ targetPort.kind = "custom"
        => (compat.res.valid <=> sourcePort.typeName = targetPort.typeName)

(* C8: checkPortCompatibility returns a result for every pair; when at most *)
(* one side is custom it is valid exactly when a kind is any or the kinds   *)
(* are equal; errorMessage is present exactly when the result is invalid    *)
(* and then names the two kinds.                                            *)
C8_KindRule ==
    /\ compat = NotCalled => ENABLED CallCheckPortCompatibility
    /\ compat.called
        => /\ compat.res.valid \in BOOLEAN
           /\ ("errorMessage" \in DOMAIN compat.res) <=> ~compat.res.valid
           /\ ~compat.res.valid
                => compat.res.errorMessage =
                       <<"Type mismatch: cannot connect ", sourcePort.kind,
                         " to ", targetPort.kind>>
           /\ ~(sourcePort.kind = "custom" /\ targetPort.kind = "custom")
                => (compat.res.valid <=> \/ sourcePort.kind = "any"
                                         \/ targetPort.kind = "any"
                                         \/ sourcePort.kind = targetPort.kind)

\* a custom output into a string input: refused, with the message
C8_Witness ==
    /\ compat.called
    /\ sourcePort.kind = "custom" /\ targetPort.kind = "string"
    /\ ~compat.res.valid
    /\ "errorMessage" \in DOMAIN compat.res

ErrorsOfType(t) == SelectSeq(validation.res.errors, LAMBDA e : e.type = t)

\* the nodes of the node list that carry id n
NodesWithId(g, n) == {g.nodes[i] : i \in {j \in 1..Len(g.nodes) : g.nodes[j].id = n}}

PortIdsOf(ports) == {ports[i].id : i \in 1..Len(ports)}

RequiredInputsOf(node) ==
    {node.inputs[i].id : i \in {j \in 1..Len(node.inputs) : node.inputs[j].required}}

AllInputPortIds(g) == UNION {PortIdsOf(g.nodes[i].inputs) : i \in 1..Len(g.nodes)}

(* C9: validate reports unsatisfied-input for (n, p) if and only if p is a  *)
(* required input port of a node n of the graph and no edge of the edge     *)
(* list targets exactly (n, p).                                             *)
C9_UnsatisfiedInputExact ==
    validation.called
        => \A n \in ListedNodes(graph) : \A p \in AllInputPortIds(graph) :
               (\E i \in 1..Len(validation.res.errors) :
                    /\ validation.res.errors[i].type = "unsatisfied-input"
                    /\ validation.res.errors[i].nodeId = n
                    /\ validation.res.errors[i].portId = p)
               <=> /\ \E node \in NodesWithId(graph, n) : p \in RequiredInputsOf(node)
                   /\ ~\E i \in 1..Len(graph.edges) :
                          graph.edges[i].target = n /\ graph.edges[i].targetPort = p

\* an edge is bad between two given nodes: a port is missing or the types clash
BadConnection(edge, sourceNode, targetNode) ==
    \/ edge.sourcePort \notin PortIdsOf(sourceNode.outputs)
    \/ edge.targetPort \notin PortIdsOf(targetNode.inputs)
    \/ ~checkPortCompatibility(
            FindPort(sourceNode.outputs, edge.sourcePort)[1].portType,
            FindPort(targetNode.inputs, edge.targetPort)[1].portType).valid

InvalidConnectionCount(edgeId) ==
    Len(SelectSeq(ErrorsOfType("invalid-connection"), LAMBDA e : e.edgeId = edgeId))

(* C10: for every edge of the graph whose source and target nodes exist,    *)
(* validate reports exactly one invalid-connection error with the edge's id *)
(* when a port is missing or the port types are incompatible and none       *)
(* otherwise; an edge with a missing node yields none. Where an id names    *)
(* several nodes the claim is read in its favour (any of them may be meant). *)
C10_InvalidConnectionExact ==
    validation.called
        => \A i \in 1..Len(graph.edges) :
               LET edge == graph.edges[i]
                   srcs == NodesWithId(graph, edge.source)
                   tgts == NodesWithId(graph, edge.target)
               IN IF srcs = {} \/ tgts = {}
                  THEN InvalidConnectionCount(edge.id) = 0
                  ELSE \/ /\ InvalidConnectionCount(edge.id) = 1
                          /\ \E sn \in srcs : \E tn \in tgts : BadConnection(edge, sn, tn)
                       \/ /\ InvalidConnectionCount(edge.id) = 0
                          /\ \E sn \in srcs : \E tn \in tgts : ~BadConnection(edge, sn, tn)

-----------------------------------------------------------------------------
(* C11: orphan reporting.  A graph with no edge and at most one node gets   *)
(* no orphan-node error; in a graph with two or more nodes every node that  *)
(* is neither the source nor the target of an edge of the edge list is      *)
(* reported as orphan-node.                                                 *)
Untouched(g, nodeId) ==
    \A i \in 1..Len(g.edges) : g.edges[i].source # nodeId /\ g.edges[i].target # nodeId

C11_OrphanReporting ==
    validation.called =>
        /\ (Len(graph.edges) = 0 /\ Len(graph.nodes) <= 1) =>
               ErrorsOfType("orphan-node") = <<>>
        /\ Len(graph.nodes) >= 2 =>
               \A i \in 1..Len(graph.nodes) :
                   Untouched(graph, graph.nodes[i].id) =>
                       \E k \in 1..Len(ErrorsOfType("orphan-node")) :
                           ErrorsOfType("orphan-node")[k].nodeId = graph.nodes[i].id

-----------------------------------------------------------------------------
(* C12: validate reports exactly one cycle error when the graph contains a  *)
(* directed cycle, however many it contains, and no cycle error when the    *)
(* graph is acyclic.  The claim is read in its favour: one error is due     *)
(* when the edge list has a directed cycle among the listed nodes, none is  *)
(* due when it has no directed cycle even through unlisted ids, and there   *)
(* is never more than one.                                                  *)
C12_OneCycleError ==
    validation.called =>
        /\ Len(ErrorsOfType("cycle")) <= 1
        /\ HasDirectedCycle(ArcsAmongNodes(graph)) => Len(ErrorsOfType("cycle")) = 1
        /\ ~HasDirectedCycle(Arcs(graph)) => Len(ErrorsOfType("cycle")) = 0

-----------------------------------------------------------------------------
(* C13: when topologicalSort fails, inferTypes fails with an error and      *)
(* leaves no partial map: after the failed call the inferred-type map is    *)
(* empty and getInferredType finds nothing for any port of any node.        *)
AllPortsOf(g) ==
    UNION {{<<g.nodes[i].id, g.nodes[i].inputs[k].id>> : k \in 1..Len(g.nodes[i].inputs)}
           \cup {<<g.nodes[i].id, g.nodes[i].outputs[k].id>>
                   : k \in 1..Len(g.nodes[i].outputs)}
           : i \in 1..Len(g.nodes)}

C13_FailedInferenceLeavesNoMap ==
    (inferResult.called /\ ~topologicalSort(GraphValidator(graph)).success) =>
        /\ inferResult.res.threw
        /\ inferred = <<>>
        /\ \A p \in AllPortsOf(graph) : getInferredType(inferred, p[1], p[2]) = <<>>

\* inferTypes was called on a graph with ports whose sort fails, and it threw
C13_Witness ==
    /\ inferResult.called /\ inferResult.res.threw
    /\ ~topologicalSort(GraphValidator(graph)).success
    /\ AllPortsOf(graph) # {}

-----------------------------------------------------------------------------
(* C14: after inferTypes succeeds on an acyclic graph, every input port     *)
(* that is the target of at least one edge has an entry in the inferred-    *)
(* type map; the entry's portType is the declared type of the source output *)
(* port of an edge into it and its provenance names that edge's source node *)
(* and port; every output port's entry carries the port's own declared type *)
(* and no provenance.                                                       *)
(* C14_AsStated counts every edge of the edge list that targets the port.   *)
(* C14_InferredEntries is the statement for the edges whose source port is  *)
(* an output port of a listed node: an edge naming a source port that does  *)
(* not exist propagates nothing.                                            *)
SourcePortsOf(g, edge) ==
    UNION {{g.nodes[i].outputs[k] :
               k \in {l \in 1..Len(g.nodes[i].outputs) :
                         g.nodes[i].outputs[l].id = edge.sourcePort}}
           : i \in {j \in 1..Len(g.nodes) : g.nodes[j].id = edge.source}}

EdgesInto(g, nodeId, portId) ==
    {i \in 1..Len(g.edges) : g.edges[i].target = nodeId /\ g.edges[i].targetPort = portId}

ResolvedEdgesInto(g, nodeId, portId) ==
    {i \in EdgesInto(g, nodeId, portId) : SourcePortsOf(g, g.edges[i]) # {}}

InferenceSucceededOnAcyclic ==
    inferResult.called /\ ~inferResult.res.threw /\ ~HasDirectedCycle(Arcs(graph))

\* the entry of an input port comes from one of the edges es
InputEntryFrom(node, port, es) ==
    /\ getInferredType(inferred, node.id, port.id) # <<>>
    /\ LET entry == getInferredType(inferred, node.id, port.id)[1]
       IN \E e \in es :
              /\ "inferredFrom" \in DOMAIN entry
              /\ entry.inferredFrom = [nodeId |-> graph.edges[e].source,
                                      portId |-> graph.edges[e].sourcePort]
              /\ \E sp \in SourcePortsOf(graph, graph.edges[e]) :
                     entry.portType = sp.portType

OutputEntryOwn(node, port) ==
    /\ getInferredType(inferred, node.id, port.id) # <<>>
    /\ LET entry == getInferredType(inferred, node.id, port.id)[1]
       IN entry.portType = port.portType /\ "inferredFrom" \notin DOMAIN entry

EntryIsFor(g, nodeId, portId, e) ==
    /\ getInferredType(inferred, nodeId, portId) # <<>>
    /\ LET entry == getInferredType(inferred, nodeId, portId)[1]
       IN /\ "inferredFrom" \in DOMAIN entry
          /\ entry.inferredFrom = [nodeId |-> g.edges[e].source,
                                  portId |-> g.edges[e].sourcePort]
          /\ \E sp \in SourcePortsOf(g, g.edges[e]) : entry.portType = sp.portType

LastInEdgeList(es) == CHOOSE e \in es : \A f \in es : f <= e

\* the position at which inferTypes processes the source of edge e
SourceRank(g, e) == IndexOf(topologicalSort(GraphValidator(g)).order, g.edges[e].source)

LastWritten(g, es) ==
    CHOOSE e \in es : \A f \in es :
        \/ SourceRank(g, f) < SourceRank(g, e)
        \/ SourceRank(g, f) = SourceRank(g, e) /\ f <= e

SeveralEdgesInto(g, nodeId, portId) ==
    Cardinality(ResolvedEdgesInto(g, nodeId, portId)) >= 2

ExecEdgesInto(nodeId, portId) == EdgesInto(graph, nodeId, portId)

ValueReceived(node, portId) == Prop(gatherInputs(state, graph, node).value, portId)

OutputOfSource(e) ==
    Prop(state.nodeOutputs, makeKey(graph.edges[e].source, graph.edges[e].sourcePort))

C16_LastEdgeValueReceived ==
    (pc = "idle" /\ result.called /\ result.res.success) =>
        \A i \in 1..Len(graph.nodes) : \A k \in 1..Len(graph.nodes[i].inputs) :
            LET node == graph.nodes[i]
                portId == node.inputs[k].id
                es == ExecEdgesInto(node.id, portId)
            IN Cardinality(es) >= 2 =>
                   ValueReceived(node, portId) = OutputOfSource(LastInEdgeList(es))


(***************************************************************************)
(* C17: execute never lets a fault escape.  An error thrown while a node   *)
(* runs rejects executeNode's promise, and execute then returns a failure  *)
(* result carrying that very error and the log list as it stood, with the  *)
(* output store untouched; the run ends there: the failing node is the     *)
(* last one entered, it never joins the executed-node set, and the result  *)
(* has no output.  A call on a graph that validation or inference faults   *)
(* returns a failure at once, before any node.  Every failure result       *)
(* carries an error and no output.                                         *)
(***************************************************************************)
NodeThrew == pc \in {"awaitLogic", "awaitNode"} /\ pending.threw

C17_ThrowStep ==
    /\ (pc = "awaitLogic" /\ pending.threw) =>
           /\ pc' = "awaitNode" /\ pending' = pending
           /\ state' = state /\ started' = started /\ finished' = finished
    /\ (pc = "awaitNode" /\ pending.threw) =>
           /\ pc' = "idle"
           /\ result' = [called |-> TRUE,
                         res |-> [success |-> FALSE, error |-> pending.error]]
           /\ state' = state /\ started' = started /\ finished' = finished
    /\ (pc = "idle" /\ calls' = calls + 1
          /\ \/ Len(validate(GraphValidator(graph)).errors) > 0
             \/ inferTypes(graph).threw) =>
           /\ pc' = "idle" /\ result'.called /\ ~result'.res.success
           /\ started' = <<>> /\ state'.nodeOutputs = state.nodeOutputs

C17_FailureShape ==
    /\ NodeThrew => /\ started # <<>>
                    /\ started[Len(started)] = order[idx]
                    /\ order[idx] \notin Range(finished)
    /\ (pc = "idle" /\ calls > 0) => result.called
    /\ (result.called /\ ~result.res.success) =>
           DOMAIN result.res = {"success", "error"}

C17_FaultBecomesFailure == []C17_FailureShape /\ [][C17_ThrowStep]_vars

\* a call has failed on a throwing node, with log lines accumulated and a
\* later node of the order never entered
C17_Witness ==
    /\ pc = "idle" /\ result.called /\ ~result.res.success
    /\ started # <<>> /\ state.logs # <<>>
    /\ Len(started) < Len(graph.nodes)
    /\ started[Len(started)] \notin state.executedNodes


(***************************************************************************)
(* C18: executing a node whose category/type combination is not one of the *)
(* recognized ones, an unknown type tag inside a known category as well as *)
(* an unknown category, signals a fatal error: the node's execution throws, *)
(* the node never joins the executed-node set, nothing is stored for it,   *)
(* and a call that entered it does not return success.                     *)
(***************************************************************************)
RecognizedKinds ==
    {<<"trigger", "trigger.http">>, <<"trigger", "trigger.timer">>,
     <<"trigger", "trigger.manual">>,
     <<"logic", "logic.if">>, <<"logic", "logic.switch">>, <<"logic", "logic.compare">>,
     <<"transform", "transform.map">>, <<"transform", "transform.filter">>,
     <<"transform", "transform.reduce">>,
     <<"effect", "effect.http">>, <<"effect", "effect.email">>, <<"effect", "effect.db">>,
     <<"data", "data.constant">>, <<"data", "data.variable">>}

Unrecognized(nodeId) ==
    \E i \in 1..Len(graph.nodes) :
        /\ graph.nodes[i].id = nodeId
        /\ <<graph.nodes[i].category, graph.nodes[i].type>> \notin RecognizedKinds

C18_UnknownNodeIsFatal ==
    \A j \in 1..Len(started) :
        Unrecognized(started[j]) =>
            /\ started[j] \notin state.executedNodes
            /\ started[j] \notin Range(finished)
            /\ (j = Len(started) /\ pc = "awaitLogic") => pending.threw
            /\ (pc = "idle" /\ result.called) => ~result.res.success


(***************************************************************************)
(* C19: when an execute call returns success, every node of the graph was  *)
(* entered and has returned exactly once in that call, and the returned    *)
(* output has exactly one entry per terminal node (a node with no outgoing *)
(* edge), keyed by the node's id, whose keys are exactly the node's        *)
(* declared output ports; a non-terminal node has no entry.                *)
(***************************************************************************)
TerminalNodes(g) ==
    {g.nodes[i].id : i \in {j \in 1..Len(g.nodes) :
                               \A e \in 1..Len(g.edges) : g.edges[e].source # g.nodes[j].id}}

KeysOnce(m, keys) ==
    /\ {m[i].key : i \in 1..Len(m)} = keys
    /\ \A i, j \in 1..Len(m) : m[i].key = m[j].key => i = j

ExecuteSucceeded == pc = "idle" /\ result.called /\ result.res.success

C19_SuccessOutputs ==
    ExecuteSucceeded =>
        /\ Len(started) = Len(graph.nodes)
        /\ Range(started) = ListedNodes(graph) /\ NoDuplicates(started)
        /\ finished = started
        /\ state.executedNodes = ListedNodes(graph)
        /\ KeysOnce(result.res.output, TerminalNodes(graph))
        /\ \A i \in 1..Len(graph.nodes) : \A k \in 1..Len(result.res.output) :
               result.res.output[k].key = graph.nodes[i].id =>
                   KeysOnce(result.res.output[k].value,
                            {graph.nodes[i].outputs[o].id :
                                o \in 1..Len(graph.nodes[i].outputs)})

\* a call has succeeded on a graph with a non-terminal and a terminal node
C19_Witness ==
    /\ ExecuteSucceeded
    /\ TerminalNodes(graph) # {}
    /\ ListedNodes(graph) \ TerminalNodes(graph) # {}


(***************************************************************************)
(* C20: the per-run state belongs to one execute call.  Every execute call *)
(* starts with an empty output store, an empty executed-node set and an    *)
(* empty log list, also a second call on the same WorkflowExecutor, so the *)
(* logs a call returns hold only lines appended during that call.          *)
(* C20_CallStartsEmpty is the first half, on every step that is a call of  *)
(* execute; C20_LogsOfOneCall is the consequence on the returned logs: at  *)
(* most one "Type inference complete" line, which every call that passes   *)
(* validation appends once, and one start line per node entered.           *)
(***************************************************************************)
C20_CallStartsEmpty ==
    [][calls' = calls + 1 =>
          /\ state.nodeOutputs = <<>>
          /\ state.executedNodes = {}
          /\ state.logs = <<>>]_vars

LinesStarting(logs, piece) == {i \in 1..Len(logs) : logs[i][1] = piece}

C20_LogsOfOneCall ==
    (pc = "idle" /\ result.called) =>
        /\ Cardinality(LinesStarting(state.logs, "Type inference complete")) <= 1
        /\ Cardinality(LinesStarting(state.logs, "Executing node: ")) = Len(started)

C20_PerRunState == C20_CallStartsEmpty /\ []C20_LogsOfOneCall


(***************************************************************************)
(* C21: no data race on the output store.  When two execute calls with     *)
(* different contexts are in flight at the same time on one                *)
(* WorkflowExecutor, interleaved at the awaits between node steps, every   *)
(* value a node reads from the output store was written by the same call,  *)
(* so each call returns the result it returns when it runs alone on a      *)
(* fresh executor: the same success flag and the same output.              *)
(***************************************************************************)
\* the result of execute(ctx) run to its end from state st with no other
\* call in flight
RECURSIVE runAlone(_, _, _, _)
runAlone(st, g, ord, ctx) ==
    IF ord = <<>> THEN Success(collectOutputs(st, g))
    ELSE LET s == executeNodeStart(st, g, Head(ord), ctx)
         IN IF s.pending.threw THEN Failure(s.pending.error)
            ELSE runAlone([s.state EXCEPT
                              !.nodeOutputs = storeOutputs(@, Head(ord), s.pending.value),
                              !.executedNodes = @ \cup {Head(ord)}],
                          g, Tail(ord), ctx)

executeAlone(g, ctx) ==
    LET this == GraphValidator(g)
        v == validate(this)
    IN IF validationFailed(v)
       THEN Failure(<<"Graph validation failed: ", Len(v.errors), " errors">>)
       ELSE IF inferTypes(g).threw THEN Failure(inferTypes(g).error)
       ELSE IF ~topologicalSort(this).success
       THEN Failure(<<"Cannot execute: graph contains cycles">>)
       ELSE runAlone(EmptyState, g, topologicalSort(this).order, ctx)

C21_NoRaceOnOutputStore ==
    \A c \in RaceCalls :
        pc[c] = "returned" => result[c].res = executeAlone(graph, context[c])


(***************************************************************************)
(* C22: topologicalSort is deterministic and first-in-first-out.  The      *)
(* order it returns is the order in which nodes were enqueued: first the   *)
(* nodes with no incoming edge, in node-list order, then each other node   *)
(* at the moment its in-degree reaches zero while the edges leaving the    *)
(* dequeued node are visited in edge-list order.  FifoOrder computes that  *)
(* order from the node list and the edge list of the snapshot.             *)
(***************************************************************************)
DistinctIds(nodes) == [i \in 1..Len(nodes) |-> nodes[i].id]

FirstOccurrences(ids) ==
    LET keep == {i \in 1..Len(ids) : \A j \in 1..(i - 1) : ids[j] # ids[i]}
        RECURSIVE pick(_)
        pick(i) == IF i > Len(ids) THEN <<>>
                   ELSE (IF i \in keep THEN <<ids[i]>> ELSE <<>>) \o pick(i + 1)
    IN pick(1)

EdgeCountInto(g, v) == Cardinality({i \in 1..Len(g.edges) : g.edges[i].target = v})

RECURSIVE FifoVisit(_, _, _, _, _)
\* the edges es (indices, in edge-list order) leaving the dequeued node
FifoVisit(g, deg, ready, emitted, es) ==
    IF es = <<>> THEN [deg |-> deg, ready |-> ready, emitted |-> emitted]
    ELSE LET v == g.edges[Head(es)].target
             d == deg[v] - 1
         IN FifoVisit(g, [deg EXCEPT ![v] = d],
                      IF d = 0 THEN Append(ready, v) ELSE ready, emitted, Tail(es))

RECURSIVE FifoRun(_, _, _, _)
FifoRun(g, deg, ready, emitted) ==
    IF ready = <<>> THEN emitted
    ELSE LET n == Head(ready)
             es == SelectSeq([i \in 1..Len(g.edges) |-> i],
                             LAMBDA i : g.edges[i].source = n)
             next == FifoVisit(g, deg, Tail(ready), Append(emitted, n), es)
         IN FifoRun(g, next.deg, next.ready, next.emitted)

FifoOrder(g) ==
    LET ids == ListedNodes(g) \cup {g.edges[i].source : i \in 1..Len(g.edges)}
                              \cup {g.edges[i].target : i \in 1..Len(g.edges)}
        deg == [v \in ids |-> EdgeCountInto(g, v)]
        queue == SelectSeq(FirstOccurrences(DistinctIds(g.nodes)), LAMBDA v : deg[v] = 0)
    IN FifoRun(g, deg, queue, <<>>)

C22_FifoOrder ==
    /\ (sortResult.called /\ sortResult.res.success) =>
           sortResult.res.order = FifoOrder(graph)
    /\ sortResult.called => sortResult.res = topologicalSort(GraphValidator(graph))


(***************************************************************************)
(* C23: register(p) with an id that is already registered fails with a     *)
(* 'Plugin already registered' error, does not call p.initialize, and      *)
(* leaves the plugin map and the capability index as they were: the        *)
(* plugin registered first stays in place.                                 *)
(***************************************************************************)
RegisterStep == pluginCall'.called /\ pluginCall' # pluginCall /\ pluginCall'.res.op = "register"

C23_DuplicateRegisterStep ==
    (RegisterStep /\ has(Manager, pluginCall'.res.arg)) =>
        /\ pluginCall'.res.completion.threw
        /\ pluginCall'.res.completion.error =
               <<"Plugin already registered: ", pluginCall'.res.arg>>
        /\ hookCalls' = hookCalls
        /\ plugins' = plugins
        /\ capabilityIndex' = capabilityIndex

C23_DuplicateRegisterRejected == [][C23_DuplicateRegisterStep]_vars

\* a register call has been rejected while a plugin with that id, another
\* object whose initialize was never called, is registered
C23_Witness ==
    /\ pluginCall.called /\ pluginCall.res.op = "register"
    /\ pluginCall.res.completion.threw
    /\ pluginCall.res.completion.error[1] = "Plugin already registered: "
    /\ has(Manager, pluginCall.res.arg)
    /\ \E o \in PluginObjects :
           /\ PluginPool[o].metadata.id = pluginCall.res.arg
           /\ MapGet(plugins, pluginCall.res.arg) # o
           /\ hookCalls[o].initialize = 0

(***************************************************************************)
(* C24: unregister is idempotent and triggers cleanup.  unregister(id) of  *)
(* an id that is not registered changes nothing and calls no cleanup;      *)
(* unregister of a registered plugin calls its cleanup exactly once, and   *)
(* afterwards has(id) is false (so that a repeated unregister(id) is a     *)
(* no-op that does not call cleanup again).                                *)
(***************************************************************************)
UnregisterStep ==
    pluginCall'.called /\ pluginCall' # pluginCall /\ pluginCall'.res.op = "unregister"

C24_UnregisterStep ==
    UnregisterStep =>
        LET id == pluginCall'.res.arg
        IN IF ~has(Manager, id)
           THEN /\ plugins' = plugins /\ capabilityIndex' = capabilityIndex
                /\ hookCalls' = hookCalls
                /\ ~pluginCall'.res.completion.threw
           ELSE LET o == MapGet(plugins, id)
                IN /\ hookCalls' = [hookCalls EXCEPT ![o].cleanup = @ + 1]
                   /\ ~MapHas(plugins', id)

C24_UnregisterIdempotent == [][C24_UnregisterStep]_vars

(***************************************************************************)
(* C25: after any sequence of register, unregister and clear calls,        *)
(* getByCapability(c) returns exactly the currently registered plugins     *)
(* whose capabilities include c, each once: no plugin that is not          *)
(* registered is returned and no registered plugin with c is missing.      *)
(***************************************************************************)
RegisteredWith(c) ==
    {MapGet(plugins, id) : id \in {k \in Range(MapKeys(plugins)) :
                                      c \in Range(PluginPool[MapGet(plugins, k)].capabilities)}}

C25_CapabilityLookupExact ==
    \A c \in PluginCapabilities :
        /\ Range(getByCapability(Manager, c)) = RegisteredWith(c)
        /\ NoDuplicates(getByCapability(Manager, c))

\* after an unregister that removed a plugin, a capability still has a
\* registered plugin and another capability has lost its only one
C25_Witness ==
    /\ pluginCall.called /\ pluginCall.res.op = "unregister"
    /\ ~pluginCall.res.completion.threw
    /\ hookCalls[1].cleanup > 0
    /\ \E c \in PluginCapabilities : getByCapability(Manager, c) # <<>>
    /\ \E c \in PluginCapabilities :
           /\ MapHas(capabilityIndex, c) /\ getByCapability(Manager, c) = <<>>


(***************************************************************************)
(* C26: the boundary structural checks are subsumed by the graph           *)
(* validator.  On every graph for which validate returns valid=true,       *)
(* validateUniqueNodeIds, validateUniqueEdgeIds, validateEdgeReferences    *)
(* and validatePortReferences all return the empty list.                   *)
(***************************************************************************)
C26_BoundaryChecksSubsumed ==
    (validation.called /\ validation.res.valid) =>
        /\ validateUniqueNodeIds(graph) = <<>>
        /\ validateUniqueEdgeIds(graph) = <<>>
        /\ validateEdgeReferences(graph) = <<>>
        /\ validatePortReferences(graph) = <<>>

\* validate has accepted a graph that has an edge
C26_Witness ==
    /\ validation.called /\ validation.res.valid
    /\ graph.edges # <<>>


(***************************************************************************)
(* C27: validation guarantees the executor's preconditions.  On every      *)
(* graph for which validate returns valid=true, topologicalSort succeeds   *)
(* with every node of the graph in the order, exactly once, and every      *)
(* required input port is the target of an edge; so inferTypes does not    *)
(* throw, and execute, whatever the context, does not fail with 'Cannot    *)
(* execute: graph contains cycles', with the inference failure or with     *)
(* 'Required input not connected'.                                         *)
(***************************************************************************)
PreconditionFailures ==
    {"Cannot execute: graph contains cycles", "Cannot infer types: graph contains cycles",
     "Required input not connected: "}

ValidatedGraph == validation.called /\ validation.res.valid

C27_ValidationGuaranteesPreconditions ==
    ValidatedGraph =>
        LET topSort == topologicalSort(GraphValidator(graph))
        IN /\ topSort.success
           /\ Range(topSort.order) = ListedNodes(graph)
           /\ Len(topSort.order) = Len(graph.nodes)
           /\ \A i \in 1..Len(graph.nodes) : \A k \in 1..Len(graph.nodes[i].inputs) :
                  graph.nodes[i].inputs[k].required =>
                      EdgesInto(graph, graph.nodes[i].id, graph.nodes[i].inputs[k].id) # {}
           /\ ~inferTypes(graph).threw
           /\ \A ctx \in ExecContexts :
                  LET r == executeAlone(graph, ctx)
                  IN r.success \/ r.error[1] \notin PreconditionFailures

\* validate has accepted a graph with a required input port and two nodes
C27_Witness ==
    /\ ValidatedGraph
    /\ Len(graph.nodes) >= 2
    /\ \E i \in 1..Len(graph.nodes) : \E k \in 1..Len(graph.nodes[i].inputs) :
           graph.nodes[i].inputs[k].required


(***************************************************************************)
(* C28: on every graph for which validate returns valid=true, the          *)
(* inference is complete after inferTypes: isInferenceComplete() is true   *)
(* and getInferenceReport() has complete=true and an empty                 *)
(* missingInferences list.                                                 *)
(***************************************************************************)
C28_ValidGraphInferenceComplete ==
    ValidatedGraph =>
        LET types == inferredTypesAfter(graph)
            report == getInferenceReport(graph, types)
        IN /\ ~inferTypes(graph).threw
           /\ isInferenceComplete(graph, types)
           /\ report.complete
           /\ report.missingInferences = <<>>

\* validate has accepted a graph in which a required input port has an
\* inferred entry with a provenance
C28_Witness ==
    /\ ValidatedGraph
    /\ \E i \in 1..Len(graph.nodes) : \E k \in 1..Len(graph.nodes[i].inputs) :
           /\ graph.nodes[i].inputs[k].required
           /\ getInferredType(inferredTypesAfter(graph), graph.nodes[i].id,
                              graph.nodes[i].inputs[k].id) # <<>>


(***************************************************************************)
(* C29: whenever detectCycles reports hasCycle=true, the node list it      *)
(* returns is a directed cycle of the graph: it is non-empty, holds no     *)
(* node twice, every consecutive pair is joined by an edge of the edge     *)
(* list from the earlier to the later node, and an edge leads from the     *)
(* last node back to the first.  The members of the list are ids named by  *)
(* the edges of the cycle; the statement does not ask them to be listed    *)
(* in graph.nodes.                                                         *)
(***************************************************************************)
C29_ReportedCycleIsGenuine ==
    (cycleResult.called /\ cycleResult.res.hasCycle) =>
        LET cycle == cycleResult.res.cycle
        IN /\ cycle # <<>>
           /\ NoDuplicates(cycle)
           /\ \A i \in 1..(Len(cycle) - 1) : <<cycle[i], cycle[i + 1]>> \in Arcs(graph)
           /\ <<cycle[Len(cycle)], cycle[1]>> \in Arcs(graph)

\* detectCycles has reported a cycle of two nodes
C29_Witness ==
    /\ cycleResult.called /\ cycleResult.res.hasCycle
    /\ Len(cycleResult.res.cycle) >= 2


(***************************************************************************)
(* C30: in every report getInferenceReport returns, totalPorts is the      *)
(* number of ports of the graph and inferredPorts counts ports that are    *)
(* counted in totalPorts too, so inferredPorts never exceeds totalPorts;   *)
(* and missingInferences lists exactly the required input ports that have  *)
(* no entry in the inferred-type map.  The report is taken on the engine   *)
(* as it stands, before inferTypes and after it.                           *)
(***************************************************************************)
PortCount(g) ==
    sumOf([i \in 1..Len(g.nodes) |-> Len(g.nodes[i].inputs) + Len(g.nodes[i].outputs)])

RequiredInputsWithoutEntry(g, types) ==
    UNION {{[nodeId |-> g.nodes[i].id, portId |-> g.nodes[i].inputs[k].id] :
               k \in {l \in 1..Len(g.nodes[i].inputs) :
                         /\ g.nodes[i].inputs[l].required
                         /\ ~MapHas(types, makeKey(g.nodes[i].id, g.nodes[i].inputs[l].id))}}
           : i \in 1..Len(g.nodes)}

C30_ReportCounts ==
    LET report == getInferenceReport(graph, inferred)
    IN /\ report.totalPorts = PortCount(graph)
       /\ report.inferredPorts <= report.totalPorts
       /\ Range(report.missingInferences) = RequiredInputsWithoutEntry(graph, inferred)
       /\ NoDuplicates(report.missingInferences)

=============================================================================
